---- MODULE Spec2Model ----
(***************************************************************************)
(* A model of the opensolar investment / payback contract                  *)
(* (src/core/contract.go) and of the RPC handlers that drive it.           *)
(*                                                                         *)
(* Money is float64 in the source.  The model keeps amounts as integers    *)
(* and fractions as exact quotients (a numerator over a fixed              *)
(* denominator), so float rounding is not modelled.                        *)
(*                                                                         *)
(* Every handler is a function from the "world" (the persisted records and *)
(* the chain-side state) and its inputs to a new world and an error.  The  *)
(* outcome of the fallible external calls of a handler is an input: env.f  *)
(* names the first external call that fails ("none": all succeed).         *)
(***************************************************************************)
EXTENDS Integers, Sequences, FiniteSets, TLC

VARIABLES
    projects,   \* the Project bucket of the database: index -> record
    issuer,     \* chain side: state of each project's asset issuer
    invBal,     \* chain side: investor-asset balance, project -> investor -> amount
    seedBal,    \* chain side: seed-asset balance, project -> investor -> amount
    fundedRuns, \* per project: times the funding-complete branch set Lock
    pipelines,  \* per project: sendRecipientAssets goroutines started
    entities,   \* the Entity bucket of the database: index -> record
    investors,  \* the Investor bucket of the database: index -> record
    transfers,  \* chain side: the transfers the last handler call attempted
    now,        \* the clock, utils.Unix()
    recSum,     \* per project: sum of the amounts persisted by updateAfterInvestment
    okSum,      \* per project: sum of the amounts of the calls that returned nil
    ncalls,     \* number of handler calls made so far
    last,       \* the last handler call: its arguments, inputs and result
    threads,    \* the handler calls in progress: position and local project copy
    pipes,      \* the sendRecipientAssets goroutines: position and local copy
    mon,        \* the monitorPaybacks goroutines: position and local copy
    released    \* per project: what the release pipelines did on the chain

\* The goroutines and what they did.
background == <<pipes, mon, released>>

vars == <<projects, issuer, invBal, seedBal, fundedRuns, pipelines, entities,
          investors, transfers, now, recSum, okSum, ncalls, last, threads, pipes, mon,
          released>>

-----------------------------------------------------------------------------
(* Bounds of the model *)

MaxAmount == 2
MaxCalls == 2
MaxTime == 2
MaxCycles == 2
\* Fractions of a payment (pct, OwnershipShift) are counted in units of 1/PctDen.
PctDen == 2

Investors == {1, 2}
Amounts == 0..MaxAmount
Balances == {0, MaxAmount}
Terms == {"inv", "seed"}

NoErr == "nil"

-----------------------------------------------------------------------------
(* Records *)

PublicKey(i) == <<"pk", i>>

Frac(n, d) == [num |-> n, den |-> d]

Range(seq) == {seq[n] : n \in DOMAIN seq}

EmptyMap == [k \in {} |-> Frac(0, 1)]

ZeroProject ==
    [Index |-> 0, Metadata |-> "", Stage |-> 0, Votes |-> 0, TotalValue |-> 0,
     MoneyRaised |-> 0,
     SeedMoneyRaised |-> 0, SeedInvestmentCap |-> 0, SeedInvestmentFactor |-> 0,
     InvestorIndices |-> <<>>, InvestorMap |-> EmptyMap,
     InvestorAssetCode |-> "", SeedAssetCode |-> "",
     Lock |-> FALSE, LockPwd |-> "", EscrowPubkey |-> "", EscrowLock |-> FALSE,
     BalLeft |-> 0, AmountOwed |-> 0, OwnershipShift |-> 0, DateLastPaid |-> 0,
     InterestRate |-> 0, InvestmentType |-> "", Chain |-> "",
     RecipientIndex |-> 0, OriginatorIndex |-> 0, GuarantorIndex |-> 0,
     PaybackPeriod |-> 0]

World ==
    [projects |-> projects, issuer |-> issuer, invBal |-> invBal,
     seedBal |-> seedBal, fundedRuns |-> fundedRuns, pipelines |-> pipelines,
     entities |-> entities, investors |-> investors, transfers |-> {},
     recSum |-> recSum]

Commit(w) ==
    /\ projects' = w.projects
    /\ issuer' = w.issuer
    /\ invBal' = w.invBal
    /\ seedBal' = w.seedBal
    /\ fundedRuns' = w.fundedRuns
    /\ pipelines' = w.pipelines
    /\ entities' = w.entities
    /\ investors' = w.investors
    /\ transfers' = w.transfers
    /\ recSum' = w.recSum

Save(w, project) == [w EXCEPT !.projects[project.Index] = project]

Result(w, project, err) == [w |-> w, project |-> project, err |-> err]

-----------------------------------------------------------------------------
(* Collaborators whose code is outside src/core/contract.go *)

\* Investor.CanInvest: the investor's spending balance covers the amount.
CanInvest(bal, amt) == bal >= amt

\* assets.AssetID of the prefixed project metadata: a non-empty asset code.
AssetID(name) == "id(" \o name \o ")"

\* MunibondInvest: the chain service transfers the investment asset, sized to
\* the amount times the multiplier, to the investor.
MunibondInvest(w, p, i, amt, factor, seed) ==
    IF seed
    THEN [w EXCEPT !.seedBal[p][i] = @ + amt * factor]
    ELSE [w EXCEPT !.invBal[p][i] = @ + amt * factor]

-----------------------------------------------------------------------------
(* VoteTowardsProposedProject, contract.go 74-104 *)

\* Investor.ChangeVotingBalance as VoteTowardsProposedProject uses it: the
\* votes cast are taken off the investor's voting balance, and the investor
\* is saved.
ChangeVotingBalance(w, invIndex, votes) ==
    [w EXCEPT !.investors[invIndex].VotingBalance = @ - votes]

\* VoteTowardsProposedProject without the test of line 87.
VoteAtAnyStage(w, invIndex, votes, p, e) ==
    LET inv == w.investors[invIndex]
        project == w.projects[p]
        voted == [project EXCEPT !.Votes = @ + votes]
    IN  IF e.f = "RetrieveInvestor"
        THEN Result(w, ZeroProject, "couldn't retrieve investor")
        ELSE IF votes > inv.VotingBalance
        THEN Result(w, ZeroProject,
                    "Can't vote with an amount greater than available balance")
        ELSE IF e.f = "RetrieveProject"
        THEN Result(w, ZeroProject, "couldn't retrieve project")
        ELSE IF e.f = "Save" THEN Result(w, voted, "couldn't save project")
        ELSE IF e.f = "ChangeVotingBalance"
        THEN Result(Save(w, voted), voted,
                    "error while deducitng voting balance of investor")
        ELSE Result(ChangeVotingBalance(Save(w, voted), invIndex, votes),
                    voted, NoErr)

VoteTowardsProposedProject(w, invIndex, votes, p, e) ==
    LET inv == w.investors[invIndex]
        project == w.projects[p]
        voted == [project EXCEPT !.Votes = @ + votes]
    IN  IF e.f = "RetrieveInvestor"
        THEN Result(w, ZeroProject, "couldn't retrieve investor")
        ELSE IF votes > inv.VotingBalance
        THEN Result(w, ZeroProject,
                    "Can't vote with an amount greater than available balance")
        ELSE IF e.f = "RetrieveProject"
        THEN Result(w, ZeroProject, "couldn't retrieve project")
        ELSE IF project.Stage # 2
        THEN Result(w, project,
                    "You can't vote for a project with stage not equal to 2")
        ELSE IF e.f = "Save" THEN Result(w, voted, "couldn't save project")
        ELSE IF e.f = "ChangeVotingBalance"
        THEN Result(Save(w, voted), voted,
                    "error while deducitng voting balance of investor")
        ELSE Result(ChangeVotingBalance(Save(w, voted), invIndex, votes),
                    voted, NoErr)

-----------------------------------------------------------------------------
(* preInvestmentCheck, contract.go 107-164 *)

\* Line 135.
ExceedsGapOfTotal(project, amt) == amt > project.TotalValue

ExceedsGapOfSeed(project, amt) ==
    amt > project.TotalValue - project.SeedMoneyRaised

ExceedsGap(project, amt) == amt > project.TotalValue - project.MoneyRaised

NeedsIssuer(project) ==
    project.SeedAssetCode = "" /\ project.InvestorAssetCode = ""

\* Lines 141-157: name the investor asset, save, start and fund the issuer.
ProvisionIssuer(w, project, p, e) ==
    LET named == [project EXCEPT
                    !.InvestorAssetCode = AssetID("InvestorAsset" \o project.Metadata)]
        saved == Save(w, named)
        inited == [saved EXCEPT !.issuer[p] = "initialised"]
        funded == [saved EXCEPT !.issuer[p] = "funded"]
    IN  IF e.f = "SaveAsset" THEN Result(w, named, "couldn't save project")
        ELSE IF e.f = "InitIssuer"
        THEN Result(saved, named, "error while initializing issuer")
        ELSE IF e.f = "FundIssuer"
        THEN Result(inited, named, "error while funding issuer")
        ELSE Result(funded, named, NoErr)

\* The checks with the remaining gap tested before the investor's balance.
preInvestmentCheckGapFirst(w, p, amt, e) ==
    LET project == w.projects[p] IN
    IF e.f = "RetrieveProject"
    THEN Result(w, ZeroProject, "couldn't retrieve project")
    ELSE IF e.f = "RetrieveInvestor"
    THEN Result(w, project, "couldn't retrieve investor")
    ELSE IF ExceedsGap(project, amt)
    THEN Result(w, project, "Investment amount greater than what is required")
    ELSE IF ~CanInvest(e.bal, amt)
    THEN Result(w, project, "Investor has less balance than what is required")
    ELSE IF ~e.keyOK
    THEN Result(w, project, "could not get pubkey from seed")
    ELSE IF ~e.acctOK
    THEN Result(w, project, "account doesn't exist yet, quitting")
    ELSE IF project.Chain \in {"stellar", ""}
    THEN IF NeedsIssuer(project)
         THEN ProvisionIssuer(w, project, p, e)
         ELSE Result(w, project, NoErr)
    ELSE Result(w, project, NoErr)

preInvestmentCheck(w, p, amt, e) ==
    LET project == w.projects[p] IN
    IF e.f = "RetrieveProject"
    THEN Result(w, ZeroProject, "couldn't retrieve project")
    ELSE IF e.f = "RetrieveInvestor"
    THEN Result(w, project, "couldn't retrieve investor")
    ELSE IF ~CanInvest(e.bal, amt)
    THEN Result(w, project, "Investor has less balance than what is required")
    ELSE IF ~e.keyOK
    THEN Result(w, project, "could not get pubkey from seed")
    ELSE IF ~e.acctOK
    THEN Result(w, project, "account doesn't exist yet, quitting")
    ELSE IF ExceedsGap(project, amt)
    THEN Result(w, project, "Investment amount greater than what is required")
    ELSE IF project.Chain \in {"stellar", ""}
    THEN IF NeedsIssuer(project)
         THEN ProvisionIssuer(w, project, p, e)
         ELSE Result(w, project, NoErr)
    \* lines 160 and 162 wrap err, which is nil here: errors.Wrap(nil, _) is nil
    ELSE Result(w, project, NoErr)

-----------------------------------------------------------------------------
(* Project.updateAfterInvestment, contract.go 249-317 *)

\* The seed surplus counted with the whole factor.
AddInvestmentWholeFactor(project, amt, i, seed) ==
    [project EXCEPT
        !.MoneyRaised = @ + amt,
        !.SeedMoneyRaised =
            IF seed THEN @ + amt * project.SeedInvestmentFactor ELSE @,
        !.InvestorIndices = Append(@, i)]

\* Lines 251-255.
AddInvestment(project, amt, i, seed) ==
    [project EXCEPT
        !.MoneyRaised = @ + amt,
        !.SeedMoneyRaised =
            IF seed THEN @ + amt * (project.SeedInvestmentFactor - 1) ELSE @,
        !.InvestorIndices = Append(@, i)]

\* Lines 251-260: record the investment and save.
uaiRecord(w, project, amt, i, seed, e) ==
    LET added == AddInvestment(project, amt, i, seed) IN
    IF e.f = "Save1" THEN Result(w, added, "couldn't save project")
    ELSE Result([Save(w, added) EXCEPT !.recSum[added.Index] = @ + amt],
                added, NoErr)

FundingComplete(project) == project.MoneyRaised = project.TotalValue

\* Lines 321-337: the recipient is looked up; after a failed lookup the admin
\* is mailed, the call sleeps an hour and looks up once more; the unlock
\* notice goes out if either lookup found the recipient.
\* e.f = "Recipient1": the first recipient lookup fails and the retry succeeds;
\* "Recipient2": both lookups fail.
sendRecipientNotification(e) ==
    [lookups |-> IF e.f \in {"Recipient1", "Recipient2"} THEN 2 ELSE 1,
     notified |-> e.f # "Recipient2",
     err |-> IF e.f = "Recipient2" THEN "couldn't retrieve recipient" ELSE NoErr]

\* Lines 262-278: lock, save, notify the recipient, start the release pipeline.
uaiComplete(w, project, e) ==
    IF ~FundingComplete(project) THEN Result(w, project, NoErr)
    ELSE
        LET locked == [project EXCEPT !.Lock = TRUE]
            saved == [Save(w, locked) EXCEPT !.fundedRuns[locked.Index] = @ + 1]
            started == [saved EXCEPT !.pipelines[locked.Index] = @ + 1]
        IN  IF e.f = "Save2" THEN Result(w, locked, "couldn't save project")
            ELSE IF sendRecipientNotification(e).err # NoErr
            THEN Result(saved, locked, "error while sending notifications to recipient")
            ELSE Result(started, locked, NoErr)

\* xlm.GetAssetBalance as used at lines 296-304: a failed query counts as 0.
\* A query for the empty asset code fails.
QueriedBalanceStickyErr(w, project, i, term, e) ==
    LET code == IF term = "inv" THEN project.InvestorAssetCode
                ELSE project.SeedAssetCode
        held == IF term = "inv" THEN w.invBal[project.Index][i]
                ELSE w.seedBal[project.Index][i]
    IN  IF code = "" \/ e.balFail # {} THEN 0 ELSE held

\* The investor and seed asset codes under which project q's assets were
\* issued: those of the caller's copy for its own project, the persisted ones
\* for another.
CodesOf(w, project, q) ==
    LET other == IF q = project.Index THEN project ELSE w.projects[q]
    IN  [inv |-> other.InvestorAssetCode, seed |-> other.SeedAssetCode]

\* What investor i holds of the assets named code: the query of lines 296 and
\* 301 names the account and the asset code and nothing of the project, so
\* the holdings of every project's assets of that code answer it.
RECURSIVE HeldOfCode(_, _, _, _, _)
HeldOfCode(w, project, i, code, q) ==
    IF q = 0 THEN 0
    ELSE LET codes == CodesOf(w, project, q) IN
         (IF codes.inv = code THEN w.invBal[q][i] ELSE 0)
         + (IF codes.seed = code THEN w.seedBal[q][i] ELSE 0)
         + HeldOfCode(w, project, i, code, q - 1)

QueriedBalance(w, project, i, term, e) ==
    LET code == IF term = "inv" THEN project.InvestorAssetCode
                ELSE project.SeedAssetCode
        held == HeldOfCode(w, project, i, code, Len(w.projects))
    IN  IF code = "" \/ <<i, term>> \in e.balFail THEN 0 ELSE held

\* Lines 306-308.
Share(w, project, i, e) ==
    Frac(QueriedBalance(w, project, i, "inv", e)
           + QueriedBalance(w, project, i, "seed", e),
         project.TotalValue)

\* Lines 285-309: the loop over InvestorIndices, from position n on.
RECURSIVE RecomputeFrom(_, _, _, _, _)
RecomputeFrom(w, project, map, n, e) ==
    IF n > Len(project.InvestorIndices) THEN map
    ELSE LET i == project.InvestorIndices[n] IN
         RecomputeFrom(w, project,
                       (PublicKey(i) :> Share(w, project, i, e)) @@ map, n + 1, e)

\* Lines 280-316: recompute InvestorMap and save.  A failed RetrieveInvestor
\* returns before the save, whatever the position it fails at.
uaiRecompute(w, project, e) ==
    LET mapped == [project EXCEPT
                     !.InvestorMap = RecomputeFrom(w, project, @, 1, e)]
    IN  IF e.f = "RetrieveInvestorLoop"
        THEN Result(w, project, "error while retrieving investors, quitting")
        ELSE IF e.f = "Save3"
        THEN Result(w, mapped, "error while saving project, quitting")
        ELSE Result(Save(w, mapped), mapped, NoErr)

updateAfterInvestment(w, project, amt, i, seed, e) ==
    LET r1 == uaiRecord(w, project, amt, i, seed, e) IN
    IF r1.err # NoErr THEN r1
    ELSE LET r2 == uaiComplete(r1.w, r1.project, e) IN
         IF r2.err # NoErr THEN r2
         ELSE uaiRecompute(r2.w, r2.project, e)

-----------------------------------------------------------------------------
(* SeedInvest, contract.go 167-206, and Invest, contract.go 209-246 *)

\* Lines 186-202 of SeedInvest: the transfer and the project update.
SeedTransfer(w, project, p, i, amt, e) ==
    LET coded == IF project.SeedAssetCode = ""
                 THEN [project EXCEPT !.SeedAssetCode = "SEEDASSET"]
                 ELSE project
    IN  IF e.f = "MunibondInvest" THEN Result(w, coded, "error while investing")
        ELSE updateAfterInvestment(
                 MunibondInvest(w, p, i, amt, project.SeedInvestmentFactor, TRUE),
                 coded, amt, i, TRUE, e)

SeedInvest(w, p, i, amt, e) ==
    LET pre == preInvestmentCheck(w, p, amt, e)
        project == pre.project
    IN  IF pre.err # NoErr THEN pre
        ELSE IF project.Stage # 1 /\ project.Stage # 2
        THEN Result(pre.w, project, "project stage not at 1")
        ELSE IF project.InvestmentType # "munibond"
        THEN Result(pre.w, project, "investment models other than munibonds are not supported")
        ELSE IF project.SeedInvestmentCap < amt
        THEN Result(pre.w, project, "you can't invest more than what the seed investment cap permits")
        ELSE IF project.Chain \in {"stellar", ""}
        THEN SeedTransfer(pre.w, project, p, i, amt, e)
        ELSE Result(pre.w, project, "other chain investments not supported  yet")

\* The inputs of the SeedInvest call Invest makes at line 226: the calls that
\* failed in Invest's own check cannot fail again, the second lookups can.
Delegated(e) ==
    [e EXCEPT !.f = IF @ = "RetrieveProject2" THEN "RetrieveProject"
                    ELSE IF @ = "RetrieveInvestor2" THEN "RetrieveInvestor"
                    ELSE IF @ \in {"RetrieveProject", "RetrieveInvestor"} THEN "none"
                    ELSE @]

\* Lines 231-242 of Invest: the transfer and the project update.
InvestTransfer(w, project, p, i, amt, e) ==
    IF e.f = "MunibondInvest" THEN Result(w, project, "error while investing")
    ELSE updateAfterInvestment(MunibondInvest(w, p, i, amt, 1, FALSE),
                               project, amt, i, FALSE, e)

Invest(w, p, i, amt, e) ==
    LET pre == preInvestmentCheck(w, p, amt, e)
        project == pre.project
    IN  IF pre.err # NoErr THEN pre
        ELSE IF project.InvestmentType # "munibond"
        THEN Result(pre.w, project, "other investment models are not supported right now")
        ELSE IF project.Chain \in {"stellar", ""}
        THEN IF project.Stage # 4
             THEN IF project.Stage = 1 \/ project.Stage = 2
                  THEN SeedInvest(pre.w, p, i, amt, Delegated(e))
                  ELSE Result(pre.w, project, "project not at stage where it can solicit investment")
             ELSE InvestTransfer(pre.w, project, p, i, amt, e)
        ELSE Result(pre.w, project, "other chain investments not supported right now")


-----------------------------------------------------------------------------
(* SetStage and the finalizeProject handler, part_001 463-497 *)

\* The transitions of the stage state machine.
LegalTransition(from, to) ==
    \/ from = 0 /\ to = 1
    \/ from = 2 /\ to = 4
    \/ from \in {1, 2, 4} /\ to = 5
    \/ from = 5 /\ to = 9

\* Project.SetStage: validate the transition, set the stage, save.
SetStage(w, project, to, saveOK) ==
    IF ~LegalTransition(project.Stage, to)
    THEN Result(w, project, "invalid stage transition")
    ELSE IF ~saveOK THEN Result(w, project, "couldn't save project")
    ELSE LET staged == [project EXCEPT !.Stage = to] IN
         Result(Save(w, staged), staged, NoErr)

finalizeProject(w, p, e) ==
    IF e.f = "RetrieveProject"
    THEN Result(w, ZeroProject, "did not retrieve project")
    ELSE SetStage(w, w.projects[p], 4, e.f # "SetStage")

-----------------------------------------------------------------------------------------------------------------------------------------------------
(* RecipientAuthorize, contract.go 23-70 *)

\* RepOriginatedProject: raise the originator's reputation.
RepOriginatedProject(w, x) == [w EXCEPT !.entities[x].Reputation = @ + 1]

\* Line 33.
VerifiedButBanned(originator) == originator.Kyc

Verified(originator) == originator.Kyc /\ ~originator.Banned

\* Lines 23-37.  Both lookups are made again here; a failed one gives FALSE.
VerifyBeforeAuthorizing(w, p, e) ==
    IF e.f \in {"RetrieveProject2", "RetrieveEntity"} THEN FALSE
    ELSE Verified(w.entities[w.projects[p].OriginatorIndex])

\* Lines 40-57: load the project, check its stage, the originator and the
\* recipient.
raCheck(w, p, recpIndex, e) ==
    LET project == w.projects[p] IN
    IF e.f = "RetrieveProject"
    THEN Result(w, ZeroProject, "couldn't retrieve project")
    ELSE IF project.Stage # 0 THEN Result(w, project, "Project stage not zero")
    ELSE IF ~VerifyBeforeAuthorizing(w, p, e)
    THEN Result(w, project, "Originator not verified")
    ELSE IF e.f = "RetrieveRecipient"
    THEN Result(w, project, "couldn't retrieve recipient")
    ELSE IF project.RecipientIndex # recpIndex
    THEN Result(w, project, "You can't authorize a project which is not assigned to you!")
    ELSE Result(w, project, NoErr)

\* Lines 59-62: SetStage(1) on the loaded copy.
raSetStage(w, project, e) ==
    LET set == SetStage(w, project, 1, e.f # "SetStage") IN
    IF set.err # NoErr
    THEN Result(set.w, set.project, "Error while setting origin project")
    ELSE set

\* Lines 64-69: raise the originator's reputation and return.
raReputation(w, project, e) ==
    IF e.f = "RepOriginatedProject"
    THEN Result(w, project, "error while increasing reputation of originator")
    ELSE Result(RepOriginatedProject(w, project.OriginatorIndex), project, NoErr)

RecipientAuthorize(w, p, recpIndex, e) ==
    LET checked == raCheck(w, p, recpIndex, e) IN
    IF checked.err # NoErr THEN checked
    ELSE LET set == raSetStage(checked.w, checked.project, e) IN
         IF set.err # NoErr THEN set
         ELSE raReputation(set.w, set.project, e)

-----------------------------------------------------------------------------
(* Payback, contract.go 478-524, and DistributePayments, contract.go 527-558 *)

\* Lines 540-549: the amount sent to an investor, share x rate x amount.  The
\* interest rate is counted in hundredths; an unset rate is 5 %.
TxAmount(project, share, amount) ==
    LET rate == IF project.InterestRate # 0 THEN project.InterestRate ELSE 5
    IN  Frac(share.num * rate * amount, share.den * 100)

\* The loop of lines 547-556 if a failed transfer ended it: no entry is served
\* after a failure.
EscrowPayoutsUntilError(project, amount, e) ==
    LET served == IF DOMAIN project.InvestorMap \cap e.sendFail = {}
                  THEN DOMAIN project.InvestorMap
                  ELSE DOMAIN project.InvestorMap \cap e.sendFail
    IN  {[from |-> project.EscrowPubkey, to |-> k,
          amount |-> TxAmount(project, project.InvestorMap[k], amount),
          memo |-> "returns", ok |-> k \notin e.sendFail] : k \in served}

\* Lines 547-556: one transfer out of the escrow is attempted per entry of
\* InvestorMap; a failed transfer is logged and skipped.
EscrowPayouts(project, amount, e) ==
    {[from |-> project.EscrowPubkey, to |-> k,
      amount |-> TxAmount(project, project.InvestorMap[k], amount),
      memo |-> "returns", ok |-> k \notin e.sendFail] :
        k \in DOMAIN project.InvestorMap}

\* Line 530-533: the error of a failed lookup is dropped, and the function goes
\* on with the zero project.
DistributePayments(w, p, amount, e) ==
    LET project == IF e.f = "RetrieveProjectD" THEN ZeroProject ELSE w.projects[p]
    IN  IF project.EscrowLock
        THEN Result(w, project, "project escrow locked, can't send funds")
        ELSE Result([w EXCEPT !.transfers = @ \cup EscrowPayouts(project, amount, e)],
                    project, NoErr)

\* The update with the whole payment taken off BalLeft.
PaidBackInFull(project, amount, pct, time) ==
    LET paid == [project EXCEPT
                    !.BalLeft = @ - amount,
                    !.AmountOwed = @ - amount,
                    !.OwnershipShift = @ + pct,
                    !.DateLastPaid = time]
        staged == IF paid.BalLeft = 0 THEN [paid EXCEPT !.Stage = 9] ELSE paid
    IN  IF staged.OwnershipShift = PctDen
        THEN [staged EXCEPT !.BalLeft = 0, !.AmountOwed = 0]
        ELSE staged

\* Lines 495-510, with pct = e.pct / PctDen, the fraction MunibondPayback
\* returned.
PaidBack(project, amount, pct, time) ==
    LET paid == [project EXCEPT
                    !.BalLeft = @ - ((PctDen - pct) * amount) \div PctDen,
                    !.AmountOwed = @ - amount,
                    !.OwnershipShift = @ + pct,
                    !.DateLastPaid = time]
        staged == IF paid.BalLeft = 0 THEN [paid EXCEPT !.Stage = 9] ELSE paid
    IN  IF staged.OwnershipShift = PctDen
        THEN [staged EXCEPT !.BalLeft = 0, !.AmountOwed = 0]
        ELSE staged

\* Payback with the distribution made before the record is saved: a failed
\* distribution leaves the database as it was.
PaybackDistributeFirst(w, p, amount, time, e) ==
    LET project == w.projects[p] IN
    IF e.f = "RetrieveProject"
    THEN Result(w, ZeroProject, "Couldn't retrieve project")
    ELSE IF project.InvestmentType # "munibond"
    THEN Result(w, project, "other investment models are not supported right now")
    ELSE IF e.f = "MunibondPayback"
    THEN Result(w, project, "Error while paying back the issuer")
    ELSE LET paid == PaidBack(project, amount, e.pct, time)
             d == DistributePayments(w, p, amount, e)
         IN  IF d.err # NoErr
             THEN Result(w, paid, "error while distributing payments")
             ELSE IF e.f = "Save" THEN Result(w, paid, "coudln't save project")
             ELSE Result(Save(d.w, paid), paid, NoErr)

Payback(w, p, amount, time, e) ==
    LET project == w.projects[p] IN
    IF e.f = "RetrieveProject"
    THEN Result(w, ZeroProject, "Couldn't retrieve project")
    ELSE IF project.InvestmentType # "munibond"
    THEN Result(w, project, "other investment models are not supported right now")
    ELSE IF e.f = "MunibondPayback"
    THEN Result(w, project, "Error while paying back the issuer")
    ELSE LET paid == PaidBack(project, amount, e.pct, time) IN
         IF e.f = "Save" THEN Result(w, paid, "coudln't save project")
         ELSE LET d == DistributePayments(Save(w, paid), p, amount, e) IN
              IF d.err # NoErr
              THEN Result(d.w, paid, "error while distributing payments")
              ELSE Result(d.w, paid, NoErr)

-----------------------------------------------------------------------------
(* CoverFirstLoss, contract.go 665-708 *)

\* Lines 681-684.
ClampedUp(entity, amount) ==
    IF entity.FirstLossGuaranteeAmt > amount
    THEN entity.FirstLossGuaranteeAmt ELSE amount

Clamped(entity, amount) ==
    IF entity.FirstLossGuaranteeAmt < amount
    THEN entity.FirstLossGuaranteeAmt ELSE amount

\* Lines 693-703: the transfer to the escrow, in the asset of the network mode.
GuaranteeTransfer(project, entity, amount, e) ==
    [from |-> entity.Index, to |-> project.EscrowPubkey,
     amount |-> Frac(amount, 1),
     memo |-> IF e.mainnet THEN "first loss guarantee, AnchorUSD"
              ELSE "first loss guarantee, STABLEUSD",
     ok |-> e.f # "SendAsset"]

CoverFirstLoss(w, p, entityIndex, amount, e) ==
    LET project == w.projects[p]
        entity == w.entities[entityIndex]
        sent == [w EXCEPT !.transfers =
                    @ \cup {GuaranteeTransfer(project, entity,
                                              Clamped(entity, amount), e)}]
    IN  IF e.f = "RetrieveProject"
        THEN Result(w, ZeroProject, "could not retrieve projects from database, quitting")
        ELSE IF e.f = "RetrieveEntity"
        THEN Result(w, project, "could not retrieve entity from database, quitting")
        ELSE IF project.GuarantorIndex # entity.Index
        THEN Result(w, project, "guarantor index does not match with entity's index in database")
        ELSE IF e.f = "DecryptSeed"
        THEN Result(w, project, "could not decrypt seed, quitting!")
        ELSE IF e.f = "SendAsset"
        THEN Result(sent, project, "could not transfer asset to escrow, quitting")
        ELSE Result(sent, project, NoErr)

-----------------------------------------------------------------------------
(* UnlockProject, contract.go 340-382 *)

\* The password that encrypts the seed of a recipient's wallet.
SeedPwdOf(owner) == "seedpwd" \o ToString(owner)

\* wallet.DecryptSeed: it succeeds with the password of the seed's owner.
DecryptSeed(owner, pwd) == pwd = SeedPwdOf(owner)

\* UnlockProject without the test of line 370.
UnlockProjectAnyLock(w, p, recp, seedpwd, e) ==
    LET project == w.projects[p]
        unlocked == [project EXCEPT !.LockPwd = seedpwd, !.Lock = FALSE]
    IN  IF e.f = "RetrieveProject"
        THEN Result(w, ZeroProject, "couldn't retrieve project")
        ELSE IF e.f = "ValidateRecipient"
        THEN Result(w, project, "couldn't validate recipient")
        ELSE IF recp # project.RecipientIndex
        THEN Result(w, project, "Recipient Indices don't match, quitting!")
        ELSE IF ~DecryptSeed(recp, seedpwd)
        THEN Result(w, project, "error while decrpyting seed")
        ELSE IF e.f = "ReturnPubkey"
        THEN Result(w, project, "couldn't get public key from seed")
        ELSE IF ~e.keyOK
        THEN Result(w, project, "Failed to unlock project")
        ELSE IF e.f = "Save"
        THEN Result(w, unlocked, "couldn't save project")
        ELSE Result(Save(w, unlocked), unlocked, NoErr)

\* recp is the recipient that ValidateRecipient returns for the credentials.
UnlockProject(w, p, recp, seedpwd, e) ==
    LET project == w.projects[p]
        unlocked == [project EXCEPT !.LockPwd = seedpwd, !.Lock = FALSE]
    IN  IF e.f = "RetrieveProject"
        THEN Result(w, ZeroProject, "couldn't retrieve project")
        ELSE IF e.f = "ValidateRecipient"
        THEN Result(w, project, "couldn't validate recipient")
        ELSE IF recp # project.RecipientIndex
        THEN Result(w, project, "Recipient Indices don't match, quitting!")
        ELSE IF ~DecryptSeed(recp, seedpwd)
        THEN Result(w, project, "error while decrpyting seed")
        ELSE IF e.f = "ReturnPubkey"
        THEN Result(w, project, "couldn't get public key from seed")
        ELSE IF ~e.keyOK
        THEN Result(w, project, "Failed to unlock project")
        ELSE IF ~project.Lock
        THEN Result(w, project, "Project not locked")
        ELSE IF e.f = "Save"
        THEN Result(w, unlocked, "couldn't save project")
        ELSE Result(Save(w, unlocked), unlocked, NoErr)

-----------------------------------------------------------------------------
(* sendRecipientAssets, contract.go 386-455, and                           *)
(* updateProjectAfterAcceptance, contract.go 458-471                       *)

\* consts.LockInterval, in ticks of the clock.
LockInterval == 1

\* A sendRecipientAssets goroutine: the project it is for, its position, its
\* copy of the project, its startTime, whether it left the wait loop because
\* the window elapsed, and what it has done on the chain.
NewPipe(p) ==
    [proj |-> p, pc |-> "start", project |-> ZeroProject, start |-> 0,
     expired |-> FALSE, did |-> {}, err |-> NoErr]

\* The goroutine ends with an error.
Failed(task, err) == [task EXCEPT !.pc = "failed", !.err = err]

\* Lines 387-391: startTime and the first load.
sraStart(w, task, time, e) ==
    IF e.f = "RetrieveProject" THEN Failed(task, "Couldn't retrieve project")
    ELSE [task EXCEPT !.pc = "waiting", !.start = time,
                      !.project = w.projects[task.proj]]

\* Line 393: the condition of the wait loop.
InWindow(task, time) == time - task.start < LockInterval

\* Lines 394-402: one poll of the wait loop; the sleep is the time that
\* passes before the next step.
sraPoll(w, task, e) ==
    LET project == w.projects[task.proj] IN
    IF e.f = "RetrieveProject" THEN Failed(task, "Couldn't retrieve project")
    ELSE IF ~project.Lock THEN [task EXCEPT !.pc = "ready", !.project = project]
    ELSE [task EXCEPT !.project = project]

\* Line 393, condition false: the loop ends because the window has elapsed.
sraExpire(task) == [task EXCEPT !.pc = "ready", !.expired = TRUE]

\* The funds if the seed surplus went into the escrow too.
EscrowFundsWithSurplus(project) == project.TotalValue + project.SeedMoneyRaised

\* Line 430: the amount handed to TransferFundsToEscrow.
EscrowFunds(project) == project.TotalValue

\* Lines 441-442: the amount for which MunibondReceive issues the debt and
\* payback assets.
AssetsIssued(project) == project.TotalValue + project.SeedMoneyRaised

\* Lines 405-446: load the project again, open the escrow, move the funds,
\* issue the debt and payback assets.  The result is the task and what the
\* chain has seen of it.
sraRelease(w, rel, task, e) ==
    LET project == w.projects[task.proj]
        loaded == [task EXCEPT !.project = project]
        withEscrow == [project EXCEPT !.EscrowPubkey = "escrow" \o project.Metadata]
        cleared == [withEscrow EXCEPT !.LockPwd = ""]
        opened == [rel EXCEPT !.escrows = @ + 1]
        funded == [opened EXCEPT !.funded = @ + EscrowFunds(project)]
        issued == [funded EXCEPT !.issued = @ + AssetsIssued(project)]
    IN  IF e.f = "RetrieveProject"
        THEN [task |-> Failed(task, "Couldn't retrieve project"), rel |-> rel]
        ELSE IF e.f = "RetrieveRecipient"
        THEN [task |-> Failed(loaded, "couldn't retrieve recipienrt"), rel |-> rel]
        ELSE IF e.f = "DecryptSeed" \/ ~DecryptSeed(project.RecipientIndex, project.LockPwd)
        THEN [task |-> Failed(loaded, "couldn't decrypt seed"), rel |-> rel]
        ELSE IF e.f = "InitEscrow"
        THEN [task |-> Failed(loaded, "error while initializing issuer"), rel |-> rel]
        ELSE IF e.f = "TransferFundsToEscrow"
        THEN [task |-> Failed([loaded EXCEPT !.project = withEscrow, !.did = {"escrow"}],
                              "could not transfer funds to the escrow, quitting!"),
              rel |-> opened]
        ELSE IF e.f = "MunibondReceive"
        THEN [task |-> Failed([loaded EXCEPT !.project = cleared,
                                             !.did = {"escrow", "funds"}],
                              "error while receiving assets from issuer on recipient's end"),
              rel |-> funded]
        ELSE [task |-> [loaded EXCEPT !.pc = "accepting", !.project = cleared,
                                      !.did = {"escrow", "funds", "assets"}],
              rel |-> issued]

\* Lines 461-462.
AfterAcceptance(project) ==
    [project EXCEPT !.BalLeft = project.TotalValue + project.SeedMoneyRaised,
                    !.Stage = 5]

\* Lines 458-471; on success the caller starts monitorPaybacks (line 469).
updateProjectAfterAcceptance(w, project, e) ==
    LET accepted == AfterAcceptance(project) IN
    IF e.f = "Save" THEN Result(w, accepted, "couldn't save project")
    ELSE Result(Save(w, accepted), accepted, NoErr)

\* Lines 448-454: the last step of sendRecipientAssets.
sraAccept(w, rel, task, e) ==
    LET r == updateProjectAfterAcceptance(w, task.project, e) IN
    IF r.err # NoErr
    THEN [w |-> r.w, rel |-> rel,
          task |-> Failed([task EXCEPT !.project = r.project],
                          "failed to update project after acceptance of asset")]
    ELSE [w |-> r.w, rel |-> [rel EXCEPT !.monitors = @ + 1],
          task |-> [task EXCEPT !.pc = "done", !.project = r.project,
                                !.did = @ \cup {"monitor"}]]

-----------------------------------------------------------------------------
(* monitorPaybacks, contract.go 569-649 *)

\* The escalation bands and the oracle's monthly bill: configuration outside
\* this repository's core.
NormalThreshold == 1
AlertThreshold == 2
SternAlertThreshold == 4
DisconnectionThreshold == 6
MonthlyBill == 2

\* What a failed RetrieveEntity leaves in guarantor.
ZeroEntity ==
    [Index |-> 0, Kyc |-> FALSE, Banned |-> FALSE, Reputation |-> 0,
     FirstLossGuaranteeAmt |-> 0]

\* Lines 589-592, in ticks of the clock.
Period(project) == IF project.PaybackPeriod = 0 THEN 1 ELSE project.PaybackPeriod

\* The branches with the gentle and the stern reminder exchanged.
BandSternFirst(elapsed, period) ==
    IF elapsed <= period THEN "ontrack"
    ELSE IF elapsed > NormalThreshold * period /\ elapsed < AlertThreshold * period
    THEN "stern"
    ELSE IF /\ elapsed >= SternAlertThreshold * period
            /\ elapsed < DisconnectionThreshold * period
    THEN "gentle"
    ELSE IF elapsed >= DisconnectionThreshold * period THEN "disconnect"
    ELSE "none"

\* Lines 597-640: the branch taken for factor = elapsed / period.
Band(elapsed, period) ==
    IF elapsed <= period THEN "ontrack"
    ELSE IF elapsed > NormalThreshold * period /\ elapsed < AlertThreshold * period
    THEN "gentle"
    ELSE IF /\ elapsed >= SternAlertThreshold * period
            /\ elapsed < DisconnectionThreshold * period
    THEN "stern"
    ELSE IF elapsed >= DisconnectionThreshold * period THEN "disconnect"
    ELSE "none"

\* Lines 571-587: the three lookups of a cycle.  A failed lookup is logged,
\* the goroutine sleeps and goes on with the zero value of the record.
monLoad(w, task, failed) ==
    LET project == IF "project" \in failed THEN ZeroProject ELSE w.projects[task.proj]
        guarantor == IF "guarantor" \in failed
                        \/ project.GuarantorIndex \notin DOMAIN w.entities
                     THEN ZeroEntity ELSE w.entities[project.GuarantorIndex]
    IN  [task EXCEPT !.pc = "assess", !.project = project,
                     !.guarantor = guarantor,
                     !.lookups = failed
                        \cup (IF guarantor = ZeroEntity THEN {"guarantor"} ELSE {}),
                     !.elapsed = 0, !.band = "", !.notices = {},
                     !.events = <<>>, !.cover = <<>>]

\* The mails of lines 605-614 and 620-632 to the investors that are found and
\* have opted in.
InvestorNotices(kind, project, e) ==
    {<<kind, i>> : i \in (Range(project.InvestorIndices) \cap e.notify) \ e.invFail}

\* The same mails in the order of the loop over InvestorIndices.
RECURSIVE InvestorMails(_, _, _)
InvestorMails(kind, indices, e) ==
    IF indices = <<>> THEN <<>>
    ELSE LET i == Head(indices)
             rest == InvestorMails(kind, Tail(indices), e)
         IN  IF i \in e.notify \ e.invFail THEN <<(<<kind, i>>)>> \o rest
             ELSE rest

\* CoverFirstLoss as the goroutine calls it at line 633, for records that may
\* not exist.
MonitorCover(w, p, entityIndex, amount, e) ==
    IF p \notin DOMAIN w.projects
    THEN Result(w, ZeroProject, "could not retrieve projects from database, quitting")
    ELSE IF entityIndex \notin DOMAIN w.entities
    THEN Result(w, w.projects[p], "could not retrieve entity from database, quitting")
    ELSE CoverFirstLoss(w, p, entityIndex, amount, e)

\* The position after the branches: whatever CoverFirstLoss returned, the
\* goroutine sleeps (lines 634-637, 643) and loops.
AfterBranchStopOnError(err) == IF err # NoErr THEN "stopped" ELSE "sleep"

AfterBranch(err) == "sleep"

\* Lines 589-643: the accrual on the goroutine's copy, the branch on factor,
\* the mails and the call of CoverFirstLoss.
monAssess(w, task, time, e) ==
    LET project == task.project
        elapsed == time - project.DateLastPaid
        owed == project.AmountOwed + (elapsed * MonthlyBill) \div Period(project)
        band == Band(elapsed, Period(project))
        accrued == [task EXCEPT !.project.AmountOwed = owed, !.band = band,
                                !.elapsed = elapsed]
        covered == MonitorCover(w, project.Index, task.guarantor.Index, owed, e)
        recipient == IF "recipient" \in task.lookups THEN 0 ELSE task.recp
    IN  IF band = "gentle"
        THEN [w |-> w,
              task |-> [accrued EXCEPT !.pc = AfterBranch(NoErr),
                                       !.notices = {<<"nice", recipient>>},
                                       !.events = <<(<<"nice", recipient>>)>>]]
        ELSE IF band = "stern"
        THEN [w |-> w,
              task |-> [accrued EXCEPT
                          !.pc = AfterBranch(NoErr),
                          !.notices = {<<"stern", recipient>>}
                                      \cup InvestorNotices("sternI", project, e)
                                      \cup {<<"sternG", task.guarantor.Index>>},
                          !.events = <<(<<"stern", recipient>>)>>
                                     \o InvestorMails("sternI", project.InvestorIndices, e)
                                     \o <<(<<"sternG", task.guarantor.Index>>)>>]]
        ELSE IF band = "disconnect"
        THEN [w |-> covered.w,
              task |-> [accrued EXCEPT
                          !.pc = AfterBranch(covered.err),
                          !.notices = InvestorNotices("disconnectI", project, e)
                                      \cup {<<"disconnectG", task.guarantor.Index>>},
                          !.events = InvestorMails("disconnectI",
                                                   project.InvestorIndices, e)
                                     \o <<(<<"disconnectG", task.guarantor.Index>>),
                                          (<<"CoverFirstLoss", project.Index>>)>>,
                          !.cover = <<project.Index, task.guarantor.Index, owed,
                                      covered.err>>]]
        ELSE [w |-> w, task |-> [accrued EXCEPT !.pc = AfterBranch(NoErr)]]

\* Line 570: the next iteration of the loop.
monWake(task) ==
    [task EXCEPT !.pc = "load",
                 !.cycles = IF @ < MaxCycles THEN @ + 1 ELSE @]

-----------------------------------------------------------------------------
(* Inputs of the handlers *)

NoEnv ==
    [bal |-> 0, keyOK |-> TRUE, acctOK |-> TRUE, f |-> "none", balFail |-> {},
     pct |-> 0, sendFail |-> {}, mainnet |-> FALSE]

InvestFaults ==
    {"none", "RetrieveProject", "RetrieveInvestor", "SaveAsset", "InitIssuer",
     "FundIssuer", "RetrieveProject2", "RetrieveInvestor2", "MunibondInvest",
     "Save1", "Save2", "Recipient1", "Recipient2", "RetrieveInvestorLoop", "Save3"}

\* The inputs of one Invest or SeedInvest call whose balance queries all
\* succeed: the investor's spending balance, whether the seed yields a key,
\* whether the account exists, and the first external call that fails.  A call
\* stopped by a failed check makes no later external call.
InvestEnvs ==
    {e \in [bal : Balances, keyOK : BOOLEAN, acctOK : BOOLEAN, f : InvestFaults,
            balFail : {{}}, pct : {0}, sendFail : {{}}, mainnet : {FALSE}] :
        ~(e.keyOK /\ e.acctOK) => e.f = "none"}

\* The inputs of a call whose checks pass and whose ledger calls succeed, with
\* any set of failing balance queries.
QueryEnvs ==
    [bal : {MaxAmount}, keyOK : {TRUE}, acctOK : {TRUE},
     f : {"none", "Save1"},
     balFail : SUBSET (Investors \X Terms), pct : {0}, sendFail : {{}},
     mainnet : {FALSE}]

Called(op, p, who, amt, err, e) ==
    [op |-> op, proj |-> p, who |-> who, amount |-> amt, err |-> err,
     balFail |-> e.balFail, pct |-> e.pct, lost |-> e.f = "RetrieveProjectD"]

-----------------------------------------------------------------------------
(* The specification of investment: Invest, SeedInvest and finalizeProject  *)
(* called one after another on a project.                                   *)

EntityIndices == {1, 2}
Recipients == {1, 2}

\* An investor record; of its fields the contract uses the voting balance.
NewInvestor(i, votingBalance) == [Index |-> i, VotingBalance |-> votingBalance]

NewEntity(x, kyc, banned, guarantee) ==
    [Index |-> x, Kyc |-> kyc, Banned |-> banned, Reputation |-> 0,
     FirstLossGuaranteeAmt |-> guarantee]

NewProject(p, stage, type, chain, cap, factor) ==
    [ZeroProject EXCEPT
        !.Index = p, !.Metadata = "P" \o ToString(p), !.Stage = stage,
        !.TotalValue = MaxAmount, !.SeedInvestmentCap = cap,
        !.SeedInvestmentFactor = factor, !.InvestmentType = type,
        !.Chain = chain, !.RecipientIndex = 1, !.OriginatorIndex = 1,
        !.GuarantorIndex = 2]

\* Projects open for investment, and projects that reject every investment.
OpenProjects(p) ==
    {NewProject(p, 4, "munibond", "", 1, 2),
     NewProject(p, 2, "munibond", "stellar", 1, 2),
     NewProject(p, 2, "munibond", "", MaxAmount, 1)}

ClosedProjects(p) ==
    {NewProject(p, 5, "munibond", "", 1, 2),
     NewProject(p, 4, "other", "", 1, 2),
     NewProject(p, 4, "munibond", "algorand", 1, 2)}

\* Nothing released yet: no escrow opened, no funds moved into escrow, no
\* debt and payback assets issued, no monitor started.
NoRelease == [escrows |-> 0, funded |-> 0, issued |-> 0, monitors |-> 0]

InitChain(P) ==
    /\ issuer = [p \in P |-> "none"]
    /\ invBal = [p \in P |-> [i \in Investors |-> 0]]
    /\ seedBal = [p \in P |-> [i \in Investors |-> 0]]
    /\ fundedRuns = [p \in P |-> 0]
    /\ pipelines = [p \in P |-> 0]
    /\ recSum = [p \in P |-> 0]
    /\ okSum = [p \in P |-> 0]
    /\ investors = [i \in Investors |-> NewInvestor(i, MaxAmount)]
    /\ transfers = {}
    /\ now = 0
    /\ ncalls = 0
    /\ last = Called("init", 0, 0, 0, NoErr, NoEnv)
    /\ threads = <<>>
    /\ pipes = <<>>
    /\ mon = <<>>
    /\ released = [p \in P |-> NoRelease]

InitInvest ==
    /\ \E project \in OpenProjects(1) \cup ClosedProjects(1) :
          projects = [p \in {1} |-> project]
    /\ entities = [x \in EntityIndices |-> NewEntity(x, TRUE, FALSE, MaxAmount)]
    /\ InitChain({1})

\* A handler call returns: its effects are in place and its result is known.
Handled(op, p, who, amt, e, r) ==
    /\ Commit(r.w)
    /\ okSum' = IF r.err = NoErr /\ op \in {"Invest", "SeedInvest"}
               THEN [okSum EXCEPT ![p] = @ + amt] ELSE okSum
    /\ ncalls' = ncalls + 1
    /\ last' = Called(op, p, who, amt, r.err, e)
    /\ UNCHANGED <<now, threads>>

\* The same, for a call that starts no goroutine.
Returned(op, p, who, amt, e, r) ==
    /\ Handled(op, p, who, amt, e, r)
    /\ UNCHANGED background

InvestCall ==
    \E p \in DOMAIN projects, i \in Investors, amt \in Amounts, e \in InvestEnvs :
        /\ ncalls < MaxCalls
        /\ Returned("Invest", p, i, amt, e, Invest(World, p, i, amt, e))

SeedInvestCall ==
    \E p \in DOMAIN projects, i \in Investors, amt \in Amounts, e \in InvestEnvs :
        /\ ncalls < MaxCalls
        /\ e.f \notin {"RetrieveProject2", "RetrieveInvestor2"}
        /\ Returned("SeedInvest", p, i, amt, e, SeedInvest(World, p, i, amt, e))

FinalizeCall ==
    \E p \in DOMAIN projects, f \in {"none", "RetrieveProject", "SetStage"} :
        /\ ncalls < MaxCalls
        /\ LET e == [NoEnv EXCEPT !.f = f] IN
           Returned("finalizeProject", p, 0, 0, e, finalizeProject(World, p, e))

NextInvest == InvestCall \/ SeedInvestCall \/ FinalizeCall

SpecInvest == InitInvest /\ [][NextInvest]_vars

-----------------------------------------------------------------------------
(* The specification of the seed round: Invest and SeedInvest called one   *)
(* after another on a project in or around its seed stages.                *)

\* Projects in a seed stage, and projects that take no seed investment.
SeedProjects(p) ==
    {NewProject(p, 1, "munibond", "", 1, 2),
     NewProject(p, 2, "munibond", "stellar", 1, 2),
     NewProject(p, 2, "other", "", 1, 2),
     NewProject(p, 0, "munibond", "", 1, 2),
     NewProject(p, 4, "munibond", "", 1, 2)}

InitSeed ==
    /\ \E project \in SeedProjects(1) : projects = [p \in {1} |-> project]
    /\ entities = [x \in EntityIndices |-> NewEntity(x, TRUE, FALSE, MaxAmount)]
    /\ InitChain({1})

NextSeed == InvestCall \/ SeedInvestCall

SpecSeed == InitSeed /\ [][NextSeed]_vars

-----------------------------------------------------------------------------
(* The specification of the InvestorMap recomputation: investments whose   *)
(* balance queries may fail.                                               *)

InitShares ==
    /\ \E project \in OpenProjects(1) : projects = [p \in {1} |-> project]
    /\ entities = [x \in EntityIndices |-> NewEntity(x, TRUE, FALSE, MaxAmount)]
    /\ InitChain({1})

InvestQueried ==
    \E p \in DOMAIN projects, i \in Investors, amt \in Amounts, e \in QueryEnvs :
        /\ ncalls < MaxCalls
        /\ Returned("Invest", p, i, amt, e, Invest(World, p, i, amt, e))

SeedInvestQueried ==
    \E p \in DOMAIN projects, i \in Investors, amt \in Amounts, e \in QueryEnvs :
        /\ ncalls < MaxCalls
        /\ Returned("SeedInvest", p, i, amt, e, SeedInvest(World, p, i, amt, e))

NextShares == InvestQueried \/ SeedInvestQueried \/ FinalizeCall

SpecShares == InitShares /\ [][NextShares]_vars

-----------------------------------------------------------------------------
(* The specification of payback: Payback and DistributePayments called    *)
(* one after another, as time passes, on a project that the release        *)
(* pipeline has brought to stage 5.                                        *)

\* Payments are multiples of PctDen, so that (1 - pct) x amount is whole.
PayAmounts == {k * PctDen : k \in 0..MaxAmount}
CoverAmounts == -1..MaxAmount

PaybackFaults == {"none", "RetrieveProject", "MunibondPayback", "Save", "RetrieveProjectD"}

PaybackEnvs ==
    {e \in [bal : {0}, keyOK : {TRUE}, acctOK : {TRUE}, f : PaybackFaults,
            balFail : {{}}, pct : 0..PctDen,
            sendFail : SUBSET {PublicKey(i) : i \in Investors}, mainnet : {FALSE}] :
        e.f \notin {"none", "RetrieveProjectD"} => e.sendFail = {}}

DistributeEnvs == {e \in PaybackEnvs : e.f \in {"none", "RetrieveProjectD"} /\ e.pct = 0}

CoverEnvs ==
    [bal : {0}, keyOK : {TRUE}, acctOK : {TRUE},
     f : {"none", "RetrieveProject", "RetrieveEntity", "DecryptSeed", "SendAsset"},
     balFail : {{}}, pct : {0}, sendFail : {{}}, mainnet : BOOLEAN]

\* The project as updateProjectAfterAcceptance leaves it (lines 458-464).
FundedProject(p, type, escrowLock, rate) ==
    LET raised == NewProject(p, 4, type, "", 1, 2) IN
    [raised EXCEPT
        !.Stage = 5, !.MoneyRaised = raised.TotalValue,
        !.InvestorIndices = <<1, 2>>,
        !.InvestorMap = (PublicKey(1) :> Frac(raised.TotalValue - 1, raised.TotalValue))
                        @@ (PublicKey(2) :> Frac(1, raised.TotalValue)),
        !.InvestorAssetCode = AssetID("InvestorAsset" \o raised.Metadata),
        !.EscrowPubkey = "escrow" \o raised.Metadata,
        !.EscrowLock = escrowLock, !.InterestRate = rate,
        !.BalLeft = raised.TotalValue + raised.SeedMoneyRaised]

InitPayback ==
    /\ \E type \in {"munibond", "other"}, escrowLock \in BOOLEAN, rate \in {0, 10} :
          projects = [p \in {1} |-> FundedProject(p, type, escrowLock, rate)]
    /\ entities = [x \in EntityIndices |-> NewEntity(x, TRUE, FALSE, MaxAmount)]
    /\ InitChain({1})

PaybackCall ==
    \E p \in DOMAIN projects, amt \in PayAmounts, e \in PaybackEnvs :
        /\ ncalls < MaxCalls
        /\ Returned("Payback", p, projects[p].RecipientIndex, amt, e,
                    Payback(World, p, amt, now, e))

DistributeCall ==
    \E p \in DOMAIN projects, amt \in PayAmounts, e \in DistributeEnvs :
        /\ ncalls < MaxCalls
        /\ Returned("DistributePayments", p, 0, amt, e,
                    DistributePayments(World, p, amt, e))

Tick ==
    /\ now < MaxTime
    /\ now' = now + 1
    /\ UNCHANGED <<projects, issuer, invBal, seedBal, fundedRuns, pipelines,
                   entities, investors, transfers, recSum, okSum, ncalls, last, threads,
                   background>>

NextPayback == PaybackCall \/ DistributeCall \/ Tick

SpecPayback == InitPayback /\ [][NextPayback]_vars

-----------------------------------------------------------------------------
(* The specification of first-loss cover: CoverFirstLoss called by any     *)
(* entity, one call after another, on a project at stage 5.                *)

InitGuarantee ==
    /\ \E escrowLock \in BOOLEAN :
          projects = [p \in {1} |-> FundedProject(p, "munibond", escrowLock, 0)]
    /\ \E guarantee \in {0, 1, MaxAmount} :
          entities = [x \in EntityIndices |-> NewEntity(x, TRUE, FALSE, guarantee)]
    /\ InitChain({1})

CoverFirstLossCall ==
    \E p \in DOMAIN projects, x \in EntityIndices, amt \in CoverAmounts,
       e \in CoverEnvs :
        /\ ncalls < MaxCalls
        /\ Returned("CoverFirstLoss", p, x, amt, e,
                    CoverFirstLoss(World, p, x, amt, e))

NextGuarantee == CoverFirstLossCall

SpecGuarantee == InitGuarantee /\ [][NextGuarantee]_vars

-----------------------------------------------------------------------------
(* The specification of authorization: RecipientAuthorize and              *)
(* finalizeProject called one after another on a proposed project.         *)

AuthorizeEnvs ==
    [bal : {0}, keyOK : {TRUE}, acctOK : {TRUE},
     f : {"none", "RetrieveProject", "RetrieveProject2", "RetrieveEntity",
          "RetrieveRecipient", "SetStage", "RepOriginatedProject"},
     balFail : {{}}, pct : {0}, sendFail : {{}}, mainnet : {FALSE}]

InitAuthorize ==
    /\ \E stage \in {0, 2}, recp \in Recipients :
          projects = [p \in {1} |->
                        [NewProject(p, stage, "munibond", "", 1, 2)
                            EXCEPT !.RecipientIndex = recp]]
    /\ \E kyc \in BOOLEAN, banned \in BOOLEAN :
          entities = [x \in EntityIndices |->
                        IF x = 1 THEN NewEntity(x, kyc, banned, 0)
                        ELSE NewEntity(x, TRUE, FALSE, MaxAmount)]
    /\ InitChain({1})

RecipientAuthorizeCall ==
    \E p \in DOMAIN projects, r \in Recipients, e \in AuthorizeEnvs :
        /\ ncalls < MaxCalls
        /\ Returned("RecipientAuthorize", p, r, 0, e,
                    RecipientAuthorize(World, p, r, e))

NextAuthorize == RecipientAuthorizeCall \/ FinalizeCall

SpecAuthorize == InitAuthorize /\ [][NextAuthorize]_vars

-----------------------------------------------------------------------------
(* The specification of voting: VoteTowardsProposedProject and             *)
(* finalizeProject called one after another on a proposed project.         *)

\* The votes of a call: none, some, and more than any balance; votes is a
\* float64 and may be negative.
VoteAmounts == -1..(MaxAmount + 1)

VoteFaults ==
    {"none", "RetrieveInvestor", "RetrieveProject", "Save", "ChangeVotingBalance"}

InitVote ==
    /\ \E stage \in {0, 2, 4} :
          projects = [p \in {1} |-> NewProject(p, stage, "munibond", "", 1, 2)]
    /\ entities = [x \in EntityIndices |-> NewEntity(x, TRUE, FALSE, MaxAmount)]
    /\ \E balance \in [Investors -> {0, MaxAmount}] :
          investors = [i \in Investors |-> NewInvestor(i, balance[i])]
    /\ issuer = [p \in {1} |-> "none"]
    /\ invBal = [p \in {1} |-> [i \in Investors |-> 0]]
    /\ seedBal = [p \in {1} |-> [i \in Investors |-> 0]]
    /\ fundedRuns = [p \in {1} |-> 0]
    /\ pipelines = [p \in {1} |-> 0]
    /\ recSum = [p \in {1} |-> 0]
    /\ okSum = [p \in {1} |-> 0]
    /\ transfers = {}
    /\ now = 0
    /\ ncalls = 0
    /\ last = Called("init", 0, 0, 0, NoErr, NoEnv)
    /\ threads = <<>>
    /\ pipes = <<>>
    /\ mon = <<>>
    /\ released = [p \in {1} |-> NoRelease]

VoteCall ==
    \E p \in DOMAIN projects, i \in Investors, votes \in VoteAmounts,
       f \in VoteFaults :
        /\ ncalls < MaxCalls
        /\ LET e == [NoEnv EXCEPT !.f = f] IN
           Returned("VoteTowardsProposedProject", p, i, votes, e,
                    VoteTowardsProposedProject(World, i, votes, p, e))

NextVote == VoteCall \/ FinalizeCall

SpecVote == InitVote /\ [][NextVote]_vars

-----------------------------------------------------------------------------
(* The specification of concurrent investment: two Invest calls on one     *)
(* project, each a goroutine of the RPC server, interleaved at every load  *)
(* and save of the project record.  No external call fails.                *)

Threads == {1, 2}

FundedEnv == [NoEnv EXCEPT !.bal = MaxAmount]

Idle == [pc |-> "idle", project |-> ZeroProject, who |-> 0, amount |-> 0,
         err |-> NoErr]

InitConcurrent ==
    /\ \E chain \in {"", "stellar"} :
          projects = [p \in {1} |-> NewProject(p, 4, "munibond", chain, 1, 2)]
    /\ entities = [x \in EntityIndices |-> NewEntity(x, TRUE, FALSE, MaxAmount)]
    /\ issuer = [p \in {1} |-> "none"]
    /\ invBal = [p \in {1} |-> [i \in Investors |-> 0]]
    /\ seedBal = [p \in {1} |-> [i \in Investors |-> 0]]
    /\ fundedRuns = [p \in {1} |-> 0]
    /\ pipelines = [p \in {1} |-> 0]
    /\ recSum = [p \in {1} |-> 0]
    /\ okSum = [p \in {1} |-> 0]
    /\ investors = [i \in Investors |-> NewInvestor(i, MaxAmount)]
    /\ transfers = {}
    /\ now = 0
    /\ ncalls = 0
    /\ last = Called("init", 0, 0, 0, NoErr, NoEnv)
    /\ threads = [t \in Threads |-> Idle]
    /\ pipes = <<>>
    /\ mon = <<>>
    /\ released = [p \in {1} |-> NoRelease]

\* The call of thread t ends with result r.
Ended(t, r) ==
    /\ Commit(r.w)
    /\ threads' = [threads EXCEPT ![t].pc = "done", ![t].project = r.project,
                                  ![t].err = r.err]
    /\ okSum' = IF r.err = NoErr
               THEN [okSum EXCEPT ![r.project.Index] = @ + threads[t].amount]
               ELSE okSum
    /\ ncalls' = ncalls + 1
    /\ last' = Called("Invest", r.project.Index, threads[t].who,
                      threads[t].amount, r.err, FundedEnv)
    /\ UNCHANGED <<now, background>>

\* The call of thread t goes on to position pc with result r.
Continued(t, pc, r) ==
    /\ Commit(r.w)
    /\ threads' = [threads EXCEPT ![t].pc = pc, ![t].project = r.project]
    /\ UNCHANGED <<okSum, ncalls, last, now, background>>

\* Lines 212-229: preInvestmentCheck loads the project; the checks that follow
\* read the local copy.
InvestLoad(t) ==
    /\ threads[t].pc = "idle"
    /\ \E p \in DOMAIN projects, i \in Investors, amt \in Amounts :
          LET pre == preInvestmentCheck(World, p, amt, FundedEnv)
              asked == [threads EXCEPT ![t].who = i, ![t].amount = amt]
          IN  /\ Commit(pre.w)
              /\ IF pre.err # NoErr \/ pre.project.Stage # 4
                 THEN /\ threads' = [asked EXCEPT ![t].pc = "done",
                                       ![t].project = pre.project,
                                       ![t].err = IF pre.err # NoErr THEN pre.err
                                                  ELSE "project not at stage where it can solicit investment"]
                      /\ ncalls' = ncalls + 1
                      /\ last' = Called("Invest", p, i, amt, threads'[t].err, FundedEnv)
                 ELSE /\ threads' = [asked EXCEPT ![t].pc = "loaded",
                                       ![t].project = pre.project]
                      /\ UNCHANGED <<ncalls, last>>
              /\ UNCHANGED <<okSum, now, background>>

\* Lines 231-260: the transfer, then the first save of the local copy.
InvestRecord(t) ==
    /\ threads[t].pc = "loaded"
    /\ LET project == threads[t].project
           sent == MunibondInvest(World, project.Index, threads[t].who,
                                  threads[t].amount, 1, FALSE)
       IN  Continued(t, "recorded",
                     uaiRecord(sent, project, threads[t].amount, threads[t].who,
                               FALSE, FundedEnv))

\* Lines 262-278: the second save, when the local copy is fully funded.
InvestComplete(t) ==
    /\ threads[t].pc = "recorded"
    /\ Continued(t, "completed", uaiComplete(World, threads[t].project, FundedEnv))

\* Lines 280-316: the third save, and the return.
InvestRecompute(t) ==
    /\ threads[t].pc = "completed"
    /\ Ended(t, uaiRecompute(World, threads[t].project, FundedEnv))

NextConcurrent ==
    \E t \in Threads :
        InvestLoad(t) \/ InvestRecord(t) \/ InvestComplete(t) \/ InvestRecompute(t)

SpecConcurrent == InitConcurrent /\ [][NextConcurrent]_vars

-----------------------------------------------------------------------------
(* The specification of concurrent authorisation: two RecipientAuthorize   *)
(* calls on one project, each a goroutine of the RPC server, interleaved   *)
(* at the load of the project, the save of SetStage and the reputation     *)
(* update.                                                                 *)

InitConcAuthorize ==
    /\ \E stage \in {0, 2}, recp \in Recipients :
          projects = [p \in {1} |->
                        [NewProject(p, stage, "munibond", "", 1, 2)
                            EXCEPT !.RecipientIndex = recp]]
    /\ \E kyc \in BOOLEAN, banned \in BOOLEAN :
          entities = [x \in EntityIndices |->
                        IF x = 1 THEN NewEntity(x, kyc, banned, 0)
                        ELSE NewEntity(x, TRUE, FALSE, MaxAmount)]
    /\ issuer = [p \in {1} |-> "none"]
    /\ invBal = [p \in {1} |-> [i \in Investors |-> 0]]
    /\ seedBal = [p \in {1} |-> [i \in Investors |-> 0]]
    /\ fundedRuns = [p \in {1} |-> 0]
    /\ pipelines = [p \in {1} |-> 0]
    /\ recSum = [p \in {1} |-> 0]
    /\ okSum = [p \in {1} |-> 0]
    /\ investors = [i \in Investors |-> NewInvestor(i, MaxAmount)]
    /\ transfers = {}
    /\ now = 0
    /\ ncalls = 0
    /\ last = Called("init", 0, 0, 0, NoErr, NoEnv)
    /\ threads = [t \in Threads |-> Idle]
    /\ pipes = <<>>
    /\ mon = <<>>
    /\ released = [p \in {1} |-> NoRelease]

\* The RecipientAuthorize call of thread t on project p returns with result r.
AuthEnded(t, p, recp, e, r) ==
    /\ Commit(r.w)
    /\ threads' = [threads EXCEPT ![t].pc = "done", ![t].who = recp,
                                  ![t].project = r.project, ![t].err = r.err]
    /\ ncalls' = ncalls + 1
    /\ last' = Called("RecipientAuthorize", p, recp, 0, r.err, e)
    /\ UNCHANGED <<okSum, now, background>>

\* The call of thread t goes on to position pc with result r.
AuthContinued(t, pc, recp, r) ==
    /\ Commit(r.w)
    /\ threads' = [threads EXCEPT ![t].pc = pc, ![t].who = recp,
                                  ![t].project = r.project]
    /\ UNCHANGED <<okSum, ncalls, last, now, background>>

\* Lines 40-57: the call loads the project and checks its own copy.
AuthCheck(t) ==
    /\ threads[t].pc = "idle"
    /\ \E p \in DOMAIN projects, recp \in Recipients,
          f \in {"none", "RetrieveProject", "RetrieveEntity", "RetrieveRecipient"} :
          LET e == [NoEnv EXCEPT !.f = f]
              r == raCheck(World, p, recp, e)
          IN  IF r.err # NoErr THEN AuthEnded(t, p, recp, e, r)
              ELSE AuthContinued(t, "checked", recp, r)

\* Lines 59-62: SetStage(1) validates and saves the copy loaded earlier.
AuthSetStage(t) ==
    /\ threads[t].pc = "checked"
    /\ \E f \in {"none", "SetStage"} :
          LET e == [NoEnv EXCEPT !.f = f]
              r == raSetStage(World, threads[t].project, e)
          IN  IF r.err # NoErr
              THEN AuthEnded(t, r.project.Index, threads[t].who, e, r)
              ELSE AuthContinued(t, "staged", threads[t].who, r)

\* Lines 64-69: the reputation update, and the return.
AuthReputation(t) ==
    /\ threads[t].pc = "staged"
    /\ \E f \in {"none", "RepOriginatedProject"} :
          LET e == [NoEnv EXCEPT !.f = f] IN
          AuthEnded(t, threads[t].project.Index, threads[t].who, e,
                    raReputation(World, threads[t].project, e))

NextConcAuthorize ==
    \E t \in Threads : AuthCheck(t) \/ AuthSetStage(t) \/ AuthReputation(t)

SpecConcAuthorize == InitConcAuthorize /\ [][NextConcAuthorize]_vars

-----------------------------------------------------------------------------
(* The specification of the project lifecycle: the handlers called one     *)
(* after another while the sendRecipientAssets goroutines they start run   *)
(* step by step between and after them, as time passes.                    *)

\* One call more than elsewhere: the investment that completes the funding,
\* the unlock, and a further call.
LifeCalls == MaxCalls + 1

SeedPwds == {SeedPwdOf(r) : r \in Recipients}

PipeFaults ==
    {"none", "RetrieveProject", "RetrieveRecipient", "DecryptSeed", "InitEscrow",
     "TransferFundsToEscrow", "MunibondReceive", "Save"}

\* A monitorPaybacks goroutine before its first cycle.
NewMonitor(recp, p) ==
    [proj |-> p, recp |-> recp, pc |-> "load", cycles |-> 0,
     project |-> ZeroProject, guarantor |-> ZeroEntity, lookups |-> {},
     elapsed |-> 0, band |-> "", notices |-> {}, events |-> <<>>, cover |-> <<>>]

InitLifecycle ==
    /\ \E project \in {NewProject(1, 0, "munibond", "", MaxAmount, 1),
                       NewProject(1, 2, "munibond", "", MaxAmount, 2),
                       NewProject(1, 4, "munibond", "", 1, 2)} :
          projects = [p \in {1} |-> project]
    /\ entities = [x \in EntityIndices |-> NewEntity(x, TRUE, FALSE, MaxAmount)]
    /\ InitChain({1})

\* A call of Invest or SeedInvest returns; sendRecipientAssets runs on if the
\* call started it (line 277).
Invested(op, p, i, amt, r) ==
    /\ Handled(op, p, i, amt, FundedEnv, r)
    /\ pipes' = IF r.w.pipelines[p] > pipelines[p]
                THEN Append(pipes, NewPipe(p)) ELSE pipes
    /\ UNCHANGED <<mon, released>>

LifeInvest ==
    \E p \in DOMAIN projects, i \in Investors, amt \in Amounts :
        /\ ncalls < LifeCalls
        /\ Invested("Invest", p, i, amt, Invest(World, p, i, amt, FundedEnv))

LifeSeedInvest ==
    \E p \in DOMAIN projects, i \in Investors, amt \in Amounts :
        /\ ncalls < LifeCalls
        /\ Invested("SeedInvest", p, i, amt, SeedInvest(World, p, i, amt, FundedEnv))

UnlockCall ==
    \E p \in DOMAIN projects, recp \in Recipients, pwd \in SeedPwds,
       f \in {"none", "Save"} :
        /\ ncalls < LifeCalls
        /\ LET e == [NoEnv EXCEPT !.f = f] IN
           Returned("UnlockProject", p, recp, 0, e,
                    UnlockProject(World, p, recp, pwd, e))

LifePayback ==
    \E p \in DOMAIN projects, amt \in PayAmounts, pct \in 0..PctDen :
        /\ ncalls < LifeCalls
        /\ LET e == [NoEnv EXCEPT !.pct = pct] IN
           Returned("Payback", p, projects[p].RecipientIndex, amt, e,
                    Payback(World, p, amt, now, e))

LifeAuthorize ==
    \E p \in DOMAIN projects, r \in Recipients :
        /\ ncalls < LifeCalls
        /\ Returned("RecipientAuthorize", p, r, 0, NoEnv,
                    RecipientAuthorize(World, p, r, NoEnv))

LifeFinalize ==
    \E p \in DOMAIN projects :
        /\ ncalls < LifeCalls
        /\ Returned("finalizeProject", p, 0, 0, NoEnv,
                    finalizeProject(World, p, NoEnv))

\* A step of goroutine k that touches nothing but the goroutine.
PipeMoved(k, task) ==
    /\ pipes' = [pipes EXCEPT ![k] = task]
    /\ UNCHANGED <<projects, issuer, invBal, seedBal, fundedRuns, pipelines,
                   entities, investors, transfers, now, recSum, okSum, ncalls, last,
                   threads, mon, released>>

PipeStart(k) ==
    /\ pipes[k].pc = "start"
    /\ \E f \in {"none", "RetrieveProject"} :
          PipeMoved(k, sraStart(World, pipes[k], now, [NoEnv EXCEPT !.f = f]))

PipePoll(k) ==
    /\ pipes[k].pc = "waiting"
    /\ InWindow(pipes[k], now)
    /\ \E f \in {"none", "RetrieveProject"} :
          PipeMoved(k, sraPoll(World, pipes[k], [NoEnv EXCEPT !.f = f]))

PipeExpire(k) ==
    /\ pipes[k].pc = "waiting"
    /\ ~InWindow(pipes[k], now)
    /\ PipeMoved(k, sraExpire(pipes[k]))

PipeRelease(k) ==
    /\ pipes[k].pc = "ready"
    /\ \E f \in PipeFaults \ {"Save"} :
          LET r == sraRelease(World, released[pipes[k].proj], pipes[k],
                              [NoEnv EXCEPT !.f = f])
          IN  /\ pipes' = [pipes EXCEPT ![k] = r.task]
              /\ released' = [released EXCEPT ![pipes[k].proj] = r.rel]
    /\ UNCHANGED <<projects, issuer, invBal, seedBal, fundedRuns, pipelines,
                   entities, investors, transfers, now, recSum, okSum, ncalls, last,
                   threads, mon>>

PipeAccept(k) ==
    /\ pipes[k].pc = "accepting"
    /\ \E f \in {"none", "Save"} :
          LET r == sraAccept(World, released[pipes[k].proj], pipes[k],
                             [NoEnv EXCEPT !.f = f])
          IN  /\ Commit(r.w)
              /\ pipes' = [pipes EXCEPT ![k] = r.task]
              /\ released' = [released EXCEPT ![pipes[k].proj] = r.rel]
              /\ mon' = IF r.task.pc = "done"
                        THEN Append(mon, NewMonitor(r.task.project.RecipientIndex,
                                                    r.task.project.Index))
                        ELSE mon
    /\ UNCHANGED <<now, okSum, ncalls, last, threads>>

PipeStep ==
    \E k \in DOMAIN pipes :
        PipeStart(k) \/ PipePoll(k) \/ PipeExpire(k) \/ PipeRelease(k) \/ PipeAccept(k)

NextLifecycle ==
    \/ LifeInvest \/ LifeSeedInvest \/ UnlockCall \/ LifePayback
    \/ LifeAuthorize \/ LifeFinalize \/ PipeStep \/ Tick

SpecLifecycle == InitLifecycle /\ [][NextLifecycle]_vars

-----------------------------------------------------------------------------
(* The specification of the unlock during an investment: the Invest calls  *)
(* of the concurrent specification, interleaved at every load and save,    *)
(* with UnlockProject called between their steps.                          *)

NextConcUnlock == NextConcurrent \/ UnlockCall

SpecConcUnlock == InitConcurrent /\ [][NextConcUnlock]_vars

-----------------------------------------------------------------------------
(* The specification of two projects: Invest, SeedInvest and Payback       *)
(* called one after another on either of two projects that the same        *)
(* investors fund.                                                         *)

ProjectIndices == {1, 2}

InitCross ==
    /\ \E stage \in {2, 4} :
          projects = [p \in ProjectIndices |->
                        NewProject(p, IF p = 1 THEN 2 ELSE stage, "munibond", "",
                                   MaxAmount, 2)]
    /\ entities = [x \in EntityIndices |-> NewEntity(x, TRUE, FALSE, MaxAmount)]
    /\ InitChain(ProjectIndices)

CrossInvest ==
    \E p \in DOMAIN projects, i \in Investors, amt \in Amounts :
        /\ ncalls < MaxCalls
        /\ Returned("Invest", p, i, amt, FundedEnv,
                    Invest(World, p, i, amt, FundedEnv))

CrossSeedInvest ==
    \E p \in DOMAIN projects, i \in Investors, amt \in Amounts :
        /\ ncalls < MaxCalls
        /\ Returned("SeedInvest", p, i, amt, FundedEnv,
                    SeedInvest(World, p, i, amt, FundedEnv))

NextCross == CrossInvest \/ CrossSeedInvest \/ PaybackCall

SpecCross == InitCross /\ [][NextCross]_vars

-----------------------------------------------------------------------------
(* The specification of the release: one sendRecipientAssets goroutine on  *)
(* a project whose funding has just completed, with or without a seed      *)
(* surplus, while the recipient calls UnlockProject and time passes.       *)

\* The project as the funding-complete branch of updateAfterInvestment leaves
\* it (lines 262-278): fully raised and locked.
LockedProject(p, stage, surplus) ==
    [NewProject(p, stage, "munibond", "", MaxAmount, 2) EXCEPT
        !.MoneyRaised = MaxAmount, !.SeedMoneyRaised = surplus,
        !.InvestorIndices = <<1>>,
        !.InvestorMap = (PublicKey(1) :> Frac(MaxAmount, MaxAmount)),
        !.InvestorAssetCode = AssetID("InvestorAsset" \o "P" \o ToString(p)),
        !.SeedAssetCode = IF surplus > 0 THEN "SEEDASSET" ELSE "",
        !.Lock = TRUE]

InitRelease ==
    /\ \E stage \in {2, 4}, surplus \in 0..MaxAmount :
          /\ stage = 4 => surplus = 0
          /\ projects = [p \in {1} |-> LockedProject(p, stage, surplus)]
    /\ entities = [x \in EntityIndices |-> NewEntity(x, TRUE, FALSE, MaxAmount)]
    /\ issuer = [p \in {1} |-> "funded"]
    /\ invBal = [p \in {1} |-> [i \in Investors |-> 0]]
    /\ seedBal = [p \in {1} |-> [i \in Investors |-> 0]]
    /\ fundedRuns = [p \in {1} |-> 1]
    /\ pipelines = [p \in {1} |-> 1]
    /\ recSum = [p \in {1} |-> MaxAmount]
    /\ okSum = [p \in {1} |-> MaxAmount]
    /\ investors = [i \in Investors |-> NewInvestor(i, MaxAmount)]
    /\ transfers = {}
    /\ now = 0
    /\ ncalls = 0
    /\ last = Called("init", 0, 0, 0, NoErr, NoEnv)
    /\ threads = <<>>
    /\ pipes = <<NewPipe(1)>>
    /\ mon = <<>>
    /\ released = [p \in {1} |-> NoRelease]

NextRelease == UnlockCall \/ PipeStep \/ Tick

SpecRelease == InitRelease /\ [][NextRelease]_vars

-----------------------------------------------------------------------------
(* The specification of the release with every call succeeding: an Invest  *)
(* call interleaved at its loads and saves, the sendRecipientAssets        *)
(* goroutine it starts, and UnlockProject, as time passes.  No ledger or   *)
(* chain call of the goroutine fails; the goroutines and the clock keep    *)
(* running.                                                                *)

\* Lines 262-278 in the Invest call of thread t: the second save, and the
\* start of sendRecipientAssets at line 277.
InvestCompleteStart(t) ==
    /\ threads[t].pc = "recorded"
    /\ LET r == uaiComplete(World, threads[t].project, FundedEnv)
           p == threads[t].project.Index
       IN  /\ Commit(r.w)
           /\ threads' = [threads EXCEPT ![t].pc = "completed",
                                         ![t].project = r.project]
           /\ pipes' = IF r.w.pipelines[p] > pipelines[p]
                       THEN Append(pipes, NewPipe(p)) ELSE pipes
    /\ UNCHANGED <<okSum, ncalls, last, now, mon, released>>

\* The steps of the Invest call of the first RPC goroutine.
InvestStep ==
    \/ InvestLoad(1) \/ InvestRecord(1) \/ InvestCompleteStart(1)
    \/ InvestRecompute(1)

RunStart(k) ==
    /\ pipes[k].pc = "start"
    /\ PipeMoved(k, sraStart(World, pipes[k], now, NoEnv))

RunPoll(k) ==
    /\ pipes[k].pc = "waiting"
    /\ InWindow(pipes[k], now)
    /\ PipeMoved(k, sraPoll(World, pipes[k], NoEnv))

RunRelease(k) ==
    /\ pipes[k].pc = "ready"
    /\ LET r == sraRelease(World, released[pipes[k].proj], pipes[k], NoEnv)
       IN  /\ pipes' = [pipes EXCEPT ![k] = r.task]
           /\ released' = [released EXCEPT ![pipes[k].proj] = r.rel]
    /\ UNCHANGED <<projects, issuer, invBal, seedBal, fundedRuns, pipelines,
                   entities, investors, transfers, now, recSum, okSum, ncalls, last,
                   threads, mon>>

RunAccept(k) ==
    /\ pipes[k].pc = "accepting"
    /\ LET r == sraAccept(World, released[pipes[k].proj], pipes[k], NoEnv)
       IN  /\ Commit(r.w)
           /\ pipes' = [pipes EXCEPT ![k] = r.task]
           /\ released' = [released EXCEPT ![pipes[k].proj] = r.rel]
           /\ mon' = IF r.task.pc = "done"
                     THEN Append(mon, NewMonitor(r.task.project.RecipientIndex,
                                                 r.task.project.Index))
                     ELSE mon
    /\ UNCHANGED <<now, okSum, ncalls, last, threads>>

RunStep ==
    \E k \in DOMAIN pipes :
        RunStart(k) \/ RunPoll(k) \/ PipeExpire(k) \/ RunRelease(k) \/ RunAccept(k)

\* The clock advances up to MaxTime, and beyond it for as long as a goroutine
\* sits in its wait loop, so that every window comes to its end.
RunTick ==
    /\ \/ now < MaxTime
       \/ \E k \in DOMAIN pipes :
             pipes[k].pc = "waiting" /\ InWindow(pipes[k], now)
    /\ now' = now + 1
    /\ UNCHANGED <<projects, issuer, invBal, seedBal, fundedRuns, pipelines,
                   entities, investors, transfers, recSum, okSum, ncalls, last, threads,
                   background>>

NextRun == InvestStep \/ UnlockCall \/ RunStep \/ RunTick

\* The handler and the goroutine are scheduled as long as the process runs,
\* and the clock advances.
SpecRun ==
    /\ InitConcurrent
    /\ [][NextRun]_vars
    /\ WF_vars(InvestStep) /\ WF_vars(RunStep) /\ WF_vars(RunTick)

\* The same goroutine and UnlockProject on a project whose Invest call has
\* returned.
NextRunAlone == UnlockCall \/ RunStep \/ RunTick

SpecRunAlone ==
    /\ InitRelease
    /\ [][NextRunAlone]_vars
    /\ WF_vars(RunStep) /\ WF_vars(RunTick)

-----------------------------------------------------------------------------
(* The specification of the payback monitor: one monitorPaybacks goroutine *)
(* on a project at stage 5 that has not been paid for since some time.     *)

Monitors == {1}

Lookups == {"project", "recipient", "guarantor"}

\* The inputs of one cycle: the investor lookups that fail, the investors who
\* want mails, and the outcome of the calls CoverFirstLoss makes.
MonitorEnvs ==
    [bal : {0}, keyOK : {TRUE}, acctOK : {TRUE},
     f : {"none", "RetrieveProject", "DecryptSeed", "SendAsset"},
     balFail : {{}}, pct : {0}, sendFail : {{}}, mainnet : {FALSE},
     invFail : {{}, {1}}, notify : {Investors, {2}}]

\* The clock when the goroutine starts its first cycle; DateLastPaid is 0, and
\* the persisted AmountOwed is 0 or what a Payback at time 0 left of it.
StartTimes == 0..(2 * DisconnectionThreshold)

InitMonitor ==
    /\ \E period \in {0, 2}, owed \in {0, -MaxAmount} :
          projects = [p \in {1} |->
                        [FundedProject(p, "munibond", FALSE, 0)
                            EXCEPT !.PaybackPeriod = period,
                                   !.AmountOwed = owed]]
    /\ entities = [x \in EntityIndices |-> NewEntity(x, TRUE, FALSE, MaxAmount)]
    /\ issuer = [p \in {1} |-> "funded"]
    /\ invBal = [p \in {1} |-> [i \in Investors |-> 1]]
    /\ seedBal = [p \in {1} |-> [i \in Investors |-> 0]]
    /\ fundedRuns = [p \in {1} |-> 1]
    /\ pipelines = [p \in {1} |-> 1]
    /\ recSum = [p \in {1} |-> MaxAmount]
    /\ okSum = [p \in {1} |-> MaxAmount]
    /\ investors = [i \in Investors |-> NewInvestor(i, MaxAmount)]
    /\ transfers = {}
    /\ now \in StartTimes
    /\ ncalls = 0
    /\ last = Called("init", 0, 0, 0, NoErr, NoEnv)
    /\ threads = <<>>
    /\ pipes = <<>>
    /\ mon = [k \in Monitors |-> NewMonitor(projects[1].RecipientIndex, 1)]
    /\ released = [p \in {1} |-> [escrows |-> 1, funded |-> MaxAmount,
                                  issued |-> MaxAmount, monitors |-> 1]]

\* A step of goroutine k that touches nothing but the goroutine.
MonMoved(k, task) ==
    /\ mon' = [mon EXCEPT ![k] = task]
    /\ UNCHANGED <<projects, issuer, invBal, seedBal, fundedRuns, pipelines,
                   entities, investors, transfers, now, recSum, okSum, ncalls, last,
                   threads, pipes, released>>

MonLoad(k) ==
    /\ mon[k].pc = "load"
    /\ \E failed \in SUBSET Lookups : MonMoved(k, monLoad(World, mon[k], failed))

MonAssess(k) ==
    /\ mon[k].pc = "assess"
    /\ \E e \in MonitorEnvs :
          LET r == monAssess(World, mon[k], now, e) IN
          /\ Commit(r.w)
          /\ mon' = [mon EXCEPT ![k] = r.task]
    /\ UNCHANGED <<now, okSum, ncalls, last, threads, pipes, released>>

MonWake(k) ==
    /\ mon[k].pc = "sleep"
    /\ MonMoved(k, monWake(mon[k]))

MonStep == \E k \in Monitors : MonLoad(k) \/ MonAssess(k) \/ MonWake(k)

NextMonitor == MonStep \/ Tick

SpecMonitor == InitMonitor /\ [][NextMonitor]_vars

\* The goroutine is scheduled as long as the process runs.
SpecMonitorLive == SpecMonitor /\ WF_vars(MonStep)

-----------------------------------------------------------------------------
(* Properties of investment *)

InvestOps == {"Invest", "SeedInvest"}

\* C1 as amended: the persisted MoneyRaised never exceeds TotalValue and
\* equals the sum of the amounts that updateAfterInvestment recorded and
\* saved, whether or not the call failed at a later step.
C1_RaisedIsRecordedSum ==
    \A p \in DOMAIN projects :
        /\ projects[p].MoneyRaised <= projects[p].TotalValue
        /\ projects[p].MoneyRaised = recSum[p]

\* C1 as stated: the persisted MoneyRaised never exceeds TotalValue and, after
\* each call, equals the sum of the amounts of the calls that were accepted
\* (returned without an error).
C1_RaisedIsAcceptedSum ==
    \A p \in DOMAIN projects :
        /\ projects[p].MoneyRaised <= projects[p].TotalValue
        /\ projects[p].MoneyRaised = okSum[p]

\* Two investments were accepted and together raised the whole value.
C1_Witness ==
    \E p \in DOMAIN projects :
        /\ Len(projects[p].InvestorIndices) = 2
        /\ projects[p].MoneyRaised = projects[p].TotalValue
        /\ okSum[p] = projects[p].TotalValue
        /\ recSum[p] = projects[p].TotalValue

\* C2: a call of Invest or SeedInvest whose amount exceeds TotalValue -
\* MoneyRaised returns an error, leaves the persisted project unchanged, and
\* neither initialises the issuer nor transfers anything on chain.
C2_OverGapRejected ==
    [][\A p \in DOMAIN projects :
          (/\ ncalls' = ncalls + 1
           /\ last'.op \in InvestOps
           /\ last'.proj = p
           /\ last'.amount > projects[p].TotalValue - projects[p].MoneyRaised)
          => /\ last'.err # NoErr
             /\ projects'[p] = projects[p]
             /\ issuer' = issuer
             /\ invBal' = invBal
             /\ seedBal' = seedBal
             /\ pipelines' = pipelines]_vars

\* After an accepted investment, a later one above the remaining gap was
\* rejected by the gap check.
C2_Witness ==
    \E p \in DOMAIN projects :
        /\ last.op \in InvestOps
        /\ last.proj = p
        /\ last.err = "Investment amount greater than what is required"
        /\ projects[p].MoneyRaised > 0
        /\ last.amount <= projects[p].TotalValue

\* C3: over any sequence of calls the funding-complete branch runs at most
\* once per project (Lock set once, one release pipeline started), and it has
\* run once whenever the project is locked.
C3_FundingCompleteOnce ==
    \A p \in DOMAIN projects :
        /\ fundedRuns[p] <= 1
        /\ pipelines[p] <= 1
        /\ projects[p].Lock => fundedRuns[p] = 1

\* C8: after a call that recomputed InvestorMap, every investor of
\* InvestorIndices has the share (investor-asset balance + seed-asset
\* balance) / TotalValue, where only the balance terms whose own query failed
\* count as 0; failed queries never make the call fail.
C8_Term(p, i, term) ==
    LET code == IF term = "inv" THEN projects[p].InvestorAssetCode
                ELSE projects[p].SeedAssetCode
        held == IF term = "inv" THEN invBal[p][i] ELSE seedBal[p][i]
    IN  IF code = "" \/ <<i, term>> \in last.balFail THEN 0 ELSE held

C8_QueryFailureIsolated ==
    \A p \in DOMAIN projects :
        (last.op \in InvestOps /\ last.proj = p)
        => /\ last.err \in {NoErr, "Investment amount greater than what is required",
                            "project stage not at 1",
                            "you can't invest more than what the seed investment cap permits",
                            "couldn't save project"}
           /\ last.err = NoErr =>
                \A i \in Range(projects[p].InvestorIndices) :
                    /\ PublicKey(i) \in DOMAIN projects[p].InvestorMap
                    /\ projects[p].InvestorMap[PublicKey(i)]
                         = Frac(C8_Term(p, i, "inv") + C8_Term(p, i, "seed"),
                                projects[p].TotalValue)

\* Investor 1's investor-asset query failed: its share is recorded as 0 while
\* investor 2 keeps the share of its balance.
C8_Witness ==
    \E p \in DOMAIN projects :
        /\ last.op \in InvestOps /\ last.proj = p /\ last.err = NoErr
        /\ last.balFail = {<<1, "inv">>}
        /\ {1, 2} \subseteq Range(projects[p].InvestorIndices)
        /\ invBal[p][1] > 0 /\ invBal[p][2] > 0
        /\ projects[p].InvestorMap[PublicKey(1)].num = 0
        /\ projects[p].InvestorMap[PublicKey(2)].num = invBal[p][2]

-----------------------------------------------------------------------------
(* Properties of payback, distribution and first-loss cover *)

\* C5: a successful Payback never increases BalLeft or AmountOwed, never
\* decreases OwnershipShift, and never leaves OwnershipShift above 1.
C5_PaybackMonotone ==
    [][\A p \in DOMAIN projects :
          (ncalls' = ncalls + 1 /\ last'.op = "Payback" /\ last'.proj = p
           /\ last'.err = NoErr)
          => /\ projects'[p].BalLeft <= projects[p].BalLeft
             /\ projects'[p].AmountOwed <= projects[p].AmountOwed
             /\ projects'[p].OwnershipShift >= projects[p].OwnershipShift
             /\ projects'[p].OwnershipShift <= PctDen]_vars

\* C6: whenever the persisted OwnershipShift is 1 or more, BalLeft and
\* AmountOwed are both 0.
C6_FullOwnershipClearsBalances ==
    \A p \in DOMAIN projects :
        projects[p].OwnershipShift >= PctDen
        => projects[p].BalLeft = 0 /\ projects[p].AmountOwed = 0

\* C7: a DistributePayments call for a project whose persisted EscrowLock is
\* set attempts no transfer and returns an error.
C7_LockedEscrowPaysNothing ==
    [][\A p \in DOMAIN projects :
          (ncalls' = ncalls + 1 /\ last'.op = "DistributePayments"
           /\ last'.proj = p /\ projects[p].EscrowLock)
          => transfers' = {} /\ last'.err # NoErr]_vars

Min(a, b) == IF a < b THEN a ELSE b

\* C9: CoverFirstLoss hands at most min(amount, FirstLossGuaranteeAmt) to the
\* asset transfer, and attempts no transfer when the entity is not the
\* project's guarantor or when the seed cannot be decrypted.
C9_FirstLossClamped ==
    \A p \in DOMAIN projects :
        (last.op = "CoverFirstLoss" /\ last.proj = p)
        => /\ \A t \in transfers :
                /\ t.amount.den = 1
                /\ t.amount.num
                     <= Min(last.amount, entities[last.who].FirstLossGuaranteeAmt)
           /\ (projects[p].GuarantorIndex # last.who
               \/ last.err = "could not decrypt seed, quitting!")
              => transfers = {}

\* The guarantor was asked for more than it guarantees and the transfer of
\* the guaranteed amount was made.
C9_Witness ==
    /\ last.op = "CoverFirstLoss" /\ last.err = NoErr
    /\ last.amount > entities[last.who].FirstLossGuaranteeAmt
    /\ \E t \in transfers :
          t.amount = Frac(entities[last.who].FirstLossGuaranteeAmt, 1) /\ t.ok

\* C11: after a successful Payback that leaves BalLeft at 0 or OwnershipShift
\* at 1, the persisted Stage of the project is 9.
C11_PaidOffIsStageNine ==
    [][\A p \in DOMAIN projects :
          (ncalls' = ncalls + 1 /\ last'.op = "Payback" /\ last'.proj = p
           /\ last'.err = NoErr
           /\ (projects'[p].BalLeft = 0 \/ projects'[p].OwnershipShift = PctDen))
          => projects'[p].Stage = 9]_vars

\* C27: a successful Payback of amount a for which MunibondPayback returned
\* pct adds pct to OwnershipShift, sets DateLastPaid to the time of the call
\* and, unless OwnershipShift has reached 1 (BalLeft and AmountOwed are then
\* zero), takes (1 - pct) x a off BalLeft and a off AmountOwed; a Payback on a
\* project that is not a munibond is refused for that reason, whatever the
\* chain would answer, with no transfer and no change of the project.
C27_PaybackArithmetic ==
    [][\A p \in DOMAIN projects :
          (ncalls' = ncalls + 1 /\ last'.op = "Payback" /\ last'.proj = p)
          => LET old == projects[p]
                 new == projects'[p]
                 a == last'.amount
             IN  /\ last'.err = NoErr
                    => /\ new.OwnershipShift = old.OwnershipShift + last'.pct
                       /\ new.DateLastPaid = now
                       /\ IF new.OwnershipShift = PctDen
                          THEN new.BalLeft = 0 /\ new.AmountOwed = 0
                          ELSE /\ new.BalLeft * PctDen
                                    = old.BalLeft * PctDen - (PctDen - last'.pct) * a
                               /\ new.AmountOwed = old.AmountOwed - a
                 /\ (old.InvestmentType # "munibond"
                     /\ last'.err # "Couldn't retrieve project")
                    => /\ last'.err
                            = "other investment models are not supported right now"
                       /\ new = old
                       /\ transfers' = {}]_vars

\* A payment of which half went into ownership has been recorded, after the
\* clock had moved.
C27_Witness ==
    \E p \in DOMAIN projects :
        /\ last.op = "Payback" /\ last.proj = p /\ last.err = NoErr
        /\ last.amount > 0 /\ last.pct > 0 /\ last.pct < PctDen
        /\ projects[p].OwnershipShift = last.pct
        /\ projects[p].BalLeft > 0
        /\ projects[p].DateLastPaid > 0

\* C30: a DistributePayments call that cannot load the project returns an
\* error and attempts no transfer out of the escrow.
C30_LostProjectIsAnError ==
    [][(ncalls' = ncalls + 1 /\ last'.op = "DistributePayments" /\ last'.lost)
          => last'.err # NoErr /\ transfers' = {}]_vars

\* C30, its second half alone: such a call attempts no transfer.
C30_LostProjectPaysNothing ==
    [][(ncalls' = ncalls + 1 /\ last'.op = "DistributePayments" /\ last'.lost)
          => transfers' = {}]_vars

\* C31: a Payback whose distribution fails returns an error, and the
\* database then holds the BalLeft, AmountOwed, OwnershipShift, DateLastPaid
\* and Stage that this payback computed and saved before distributing; no
\* transfer to an investor has been attempted.
C31_FailedDistributionKeepsUpdate ==
    [][\A p \in DOMAIN projects :
          (ncalls' = ncalls + 1 /\ last'.op = "Payback" /\ last'.proj = p
           /\ last'.err = "error while distributing payments")
          => /\ projects'[p] = PaidBack(projects[p], last'.amount, last'.pct, now)
             /\ transfers' = {}]_vars

\* A payment on a project whose escrow is locked was refused at the
\* distribution, and the record shows the payment.
C31_Witness ==
    \E p \in DOMAIN projects :
        /\ last.op = "Payback" /\ last.proj = p
        /\ last.err = "error while distributing payments"
        /\ last.amount > 0 /\ last.pct > 0
        /\ projects[p].EscrowLock
        /\ projects[p].AmountOwed < 0
        /\ projects[p].OwnershipShift > 0
        /\ investors = [i \in Investors |-> NewInvestor(i, MaxAmount)]
    /\ transfers = {}

\* C34: in every persisted project state reached from the release by Payback
\* calls with amount >= 0 and pct in [0, 1], BalLeft and AmountOwed are not
\* negative, however large the payment.
C34_ObligationsNonNegative ==
    \A p \in DOMAIN projects :
        projects[p].BalLeft >= 0 /\ projects[p].AmountOwed >= 0

\* C34, for BalLeft alone and payments within the remaining balance.
C34_BalLeftNonNegativeWithinBalance ==
    [][\A p \in DOMAIN projects :
          (ncalls' = ncalls + 1 /\ last'.op = "Payback" /\ last'.proj = p
           /\ projects[p].BalLeft >= 0 /\ last'.amount <= projects[p].BalLeft)
          => projects'[p].BalLeft >= 0]_vars

\* C17: a DistributePayments call that loads a project whose escrow is not
\* locked attempts exactly one transfer out of the escrow for every entry of
\* InvestorMap and no other, whichever of them fail, changes nothing in the
\* database, and returns nil.
C17_OneTransferPerInvestor ==
    [][\A p \in DOMAIN projects :
          (ncalls' = ncalls + 1 /\ last'.op = "DistributePayments"
           /\ last'.proj = p /\ ~last'.lost /\ ~projects[p].EscrowLock)
          => /\ last'.err = NoErr
             /\ \A k \in DOMAIN projects[p].InvestorMap :
                   Cardinality({t \in transfers' : t.to = k}) = 1
             /\ \A t \in transfers' : t.to \in DOMAIN projects[p].InvestorMap
             /\ projects' = projects]_vars

\* A distribution in which the transfer to one investor failed and the
\* transfer to another was made.
C17_Witness ==
    /\ last.op = "DistributePayments" /\ last.err = NoErr /\ ~last.lost
    /\ \E t \in transfers : ~t.ok
    /\ \E t \in transfers : t.ok

-----------------------------------------------------------------------------
(* Properties of authorization *)

\* C10: RecipientAuthorize succeeds only if the stage is 0, the originator is
\* KYC-verified and not banned and the recipient is the project's; a success
\* sets the stage to 1 and raises the originator's reputation once; when one
\* of the conditions fails the call returns an error and changes neither.
C10_AuthorizeGuarded ==
    [][\A p \in DOMAIN projects :
          (ncalls' = ncalls + 1 /\ last'.op = "RecipientAuthorize" /\ last'.proj = p)
          => LET o == projects[p].OriginatorIndex
                 allowed == /\ projects[p].Stage = 0
                            /\ entities[o].Kyc /\ ~entities[o].Banned
                            /\ projects[p].RecipientIndex = last'.who
             IN  /\ last'.err = NoErr
                    => /\ allowed
                       /\ projects'[p].Stage = 1
                       /\ entities'[o].Reputation = entities[o].Reputation + 1
                 /\ ~allowed
                    => /\ last'.err # NoErr
                       /\ projects'[p].Stage = projects[p].Stage
                       /\ entities' = entities]_vars

\* The project's recipient authorized it.
C10_Witness ==
    \E p \in DOMAIN projects :
        /\ last.op = "RecipientAuthorize" /\ last.proj = p /\ last.err = NoErr
        /\ projects[p].Stage = 1
        /\ entities[projects[p].OriginatorIndex].Reputation = 1

-----------------------------------------------------------------------------
(* Properties of concurrent investment *)

Accepted == {t \in DOMAIN threads : threads[t].pc = "done" /\ threads[t].err = NoErr}

\* C4: when two interleaved Invest calls have both returned, MoneyRaised does
\* not exceed TotalValue, equals the sum of the accepted amounts, and
\* InvestorIndices has one entry for each accepted investment.
C4_NoLostUpdate ==
    \A p \in DOMAIN projects :
        (threads # <<>> /\ \A t \in DOMAIN threads : threads[t].pc = "done")
        => /\ projects[p].MoneyRaised <= projects[p].TotalValue
           /\ projects[p].MoneyRaised = okSum[p]
           /\ Len(projects[p].InvestorIndices) = Cardinality(Accepted)

-----------------------------------------------------------------------------
(* Properties of concurrent authorisation *)

\* The calls whose SetStage(1) has saved the project.
Staged ==
    {t \in DOMAIN threads :
        \/ threads[t].pc = "staged"
        \/ /\ threads[t].pc = "done"
           /\ threads[t].err \in
                  {NoErr, "error while increasing reputation of originator"}}

\* C20: of two interleaved RecipientAuthorize calls on one project, at most
\* one commits the transition from stage 0 to stage 1, at most one returns
\* success, and the originator's reputation is raised at most once.
C20_AuthorizedOnce ==
    /\ Cardinality(Staged) <= 1
    /\ Cardinality(Accepted) <= 1
    /\ \A p \in DOMAIN projects :
          entities[projects[p].OriginatorIndex].Reputation <= 1

-----------------------------------------------------------------------------
(* Properties of the project lifecycle *)

\* C12: every change of a project's Stage is one of the transitions 0 to 1,
\* 2 to 4, a fund-raising stage (1, 2 or 4) to 5, and 5 to 9; so Stage never
\* decreases, 5 is entered only from a fund-raising stage and 9 only from 5.
C12_StageChangesEnumerated ==
    [][\A p \in DOMAIN projects :
          LET from == projects[p].Stage
              to == projects'[p].Stage
          IN  to # from
              => \/ from = 0 /\ to = 1
                 \/ from = 2 /\ to = 4
                 \/ from \in {1, 2, 4} /\ to = 5
                 \/ from = 5 /\ to = 9]_vars

\* C13: a sendRecipientAssets goroutine that leaves its wait loop because the
\* LockInterval window has elapsed, and that finds the project still locked,
\* opens no escrow, moves no funds into escrow and issues no assets.
C13_StillLockedReleasesNothing ==
    \A k \in DOMAIN pipes :
        (pipes[k].expired /\ pipes[k].project.Lock) => pipes[k].did = {}

\* The goroutine has ended after it used LockPwd to decrypt the seed (line 417).
EndedAfterRead(task) ==
    \/ task.pc = "done"
    \/ /\ task.pc = "failed"
       /\ task.err \in {"error while initializing issuer",
                        "could not transfer funds to the escrow, quitting!",
                        "error while receiving assets from issuer on recipient's end",
                        "failed to update project after acceptance of asset"}

\* C14: once a sendRecipientAssets run that read LockPwd has ended, with
\* success or with a failure of a later step, the persisted LockPwd is empty.
C14_LockPwdClearedAfterRead ==
    \A k \in DOMAIN pipes :
        EndedAfterRead(pipes[k]) => projects[pipes[k].proj].LockPwd = ""

\* C15: the step on which a sendRecipientAssets run succeeds leaves the
\* persisted project at Stage 5 with BalLeft = TotalValue + SeedMoneyRaised and
\* one monitorPaybacks goroutine started for the project; the step on which
\* its final save fails starts no monitor.
C15_AcceptanceStartsOneMonitor ==
    [][\A k \in DOMAIN pipes :
          LET p == pipes[k].proj IN
          (pipes[k].pc = "accepting" /\ pipes'[k].pc # "accepting")
          => IF pipes'[k].pc = "done"
             THEN /\ projects'[p].Stage = 5
                  /\ projects'[p].BalLeft =
                         projects'[p].TotalValue + projects'[p].SeedMoneyRaised
                  /\ released'[p].monitors = 1
                  /\ Len(mon') = 1
             ELSE /\ released'[p].monitors = released[p].monitors
                  /\ mon' = mon]_vars

\* C28: the step on which a sendRecipientAssets run moves the funds moves
\* TotalValue + SeedMoneyRaised into the escrow, the amount for which the debt
\* and payback assets are issued and at which BalLeft starts.
C28_EscrowGetsFullRaise ==
    [][\A k \in DOMAIN pipes :
          LET p == pipes[k].proj IN
          ("funds" \in pipes'[k].did /\ "funds" \notin pipes[k].did)
          => /\ released'[p].funded - released[p].funded
                   = projects[p].TotalValue + projects[p].SeedMoneyRaised
             /\ "assets" \in pipes'[k].did
                => released'[p].issued - released[p].issued
                       = released'[p].funded - released[p].funded]_vars

\* C28 as amended: the step on which a sendRecipientAssets run moves the
\* funds moves TotalValue into the escrow, without the seed surplus; the debt
\* and payback assets it then issues are for TotalValue + SeedMoneyRaised.
C28_EscrowGetsTotalValue ==
    [][\A k \in DOMAIN pipes :
          LET p == pipes[k].proj IN
          ("funds" \in pipes'[k].did /\ "funds" \notin pipes[k].did)
          => /\ released'[p].funded - released[p].funded = projects[p].TotalValue
             /\ "assets" \in pipes'[k].did
                => released'[p].issued - released[p].issued
                       = projects[p].TotalValue + projects[p].SeedMoneyRaised]_vars

\* A run has moved the funds and issued the assets of a project that has a
\* seed surplus.
C28_Witness ==
    \E k \in DOMAIN pipes :
        LET p == pipes[k].proj IN
        /\ {"funds", "assets"} \subseteq pipes[k].did
        /\ projects[p].SeedMoneyRaised > 0
        /\ released[p].funded = projects[p].TotalValue
        /\ released[p].issued > released[p].funded

\* C16: the step on which a sendRecipientAssets run fails ends the run, does
\* not change Stage, starts no monitor, and leaves the persisted project with
\* Lock = true.
C16_FailedRunStaysLocked ==
    [][\A k \in DOMAIN pipes :
          LET p == pipes[k].proj IN
          (pipes[k].pc # "failed" /\ pipes'[k].pc = "failed")
          => /\ projects'[p].Stage = projects[p].Stage
             /\ mon' = mon
             /\ released'[p].monitors = released[p].monitors
             /\ projects'[p].Lock]_vars

-----------------------------------------------------------------------------
(* Properties of the payback monitor *)

-----------------------------------------------------------------------------
(* Properties of rejected investments *)

\* The rejections of Invest and SeedInvest that come from a check of the
\* request against the project, not from a failed external call.
ValidationErrors ==
    {"Investment amount greater than what is required",
     "other investment models are not supported right now",
     "investment models other than munibonds are not supported",
     "project not at stage where it can solicit investment",
     "project stage not at 1",
     "you can't invest more than what the seed investment cap permits",
     "other chain investments not supported right now",
     "other chain investments not supported  yet"}

\* The step is an Invest or SeedInvest call that returns one of the errors.
RejectedWith(errs) ==
    /\ ncalls' = ncalls + 1
    /\ last'.op \in {"Invest", "SeedInvest"}
    /\ last'.err \in errs

\* C19: an Invest or SeedInvest call rejected for a validation reason
\* (unsupported investment model, wrong stage, amount above the seed cap,
\* amount above the remaining gap, unsupported chain) leaves the persisted
\* project record unchanged and initialises or funds no issuer.
C19_RejectionMutatesNothing ==
    [][RejectedWith(ValidationErrors) =>
           projects' = projects /\ issuer' = issuer]_vars

\* C19, the two rejections that are decided before the issuer is provisioned
\* (remaining gap, line 135) or on a path that skips it (a chain other than
\* stellar, lines 159-163): these mutate nothing.
C19_EarlyRejectionMutatesNothing ==
    [][RejectedWith({"Investment amount greater than what is required",
                     "other chain investments not supported right now",
                     "other chain investments not supported  yet"}) =>
           projects' = projects /\ issuer' = issuer]_vars


-----------------------------------------------------------------------------
(* Properties of the monitor's branches *)

Severity(band) ==
    CASE band = "ontrack" -> 0
      [] band = "gentle" -> 1
      [] band = "stern" -> 2
      [] band = "disconnect" -> 3
      [] OTHER -> 0

\* The mails each branch sends.
KindsOf(band) ==
    CASE band = "gentle" -> {"nice"}
      [] band = "stern" -> {"stern", "sternI", "sternG"}
      [] band = "disconnect" -> {"disconnectI", "disconnectG"}
      [] OTHER -> {}

Branches == {"ontrack", "gentle", "stern", "disconnect"}

\* C21: a cycle of monitorPaybacks takes at most one of the branches on-track,
\* gentle reminder, stern reminder and disconnection; every cycle with a
\* smaller factor (same period) that takes a branch takes one that is no more
\* severe; and a cycle with factor <= 1 sends no mail and does not call
\* CoverFirstLoss.
C21_OneBranchBySeverity ==
    \A k \in Monitors :
        mon[k].pc = "sleep"
        => LET task == mon[k]
               period == Period(task.project)
           IN  /\ {n[1] : n \in task.notices} \subseteq KindsOf(task.band)
               /\ task.cover # <<>> => task.band = "disconnect"
               /\ \A smaller \in 0..task.elapsed :
                     (Band(smaller, period) \in Branches /\ task.band \in Branches)
                     => Severity(Band(smaller, period)) <= Severity(task.band)
               /\ task.elapsed <= period
                  => task.band = "ontrack" /\ task.notices = {} /\ task.cover = <<>>

\* A cycle has taken the stern branch, with a mail to an investor, at a factor
\* above those of the on-track and gentle branches.
C21_Witness ==
    \E k \in Monitors :
        /\ mon[k].pc = "sleep" /\ mon[k].band = "stern"
        /\ mon[k].elapsed >= SternAlertThreshold * Period(mon[k].project)
        /\ \E n \in mon[k].notices : n[1] = "sternI"

\* The events of a cycle that called CoverFirstLoss are the disconnection
\* mails to the investors, the one to the guarantor, then the call.
NoticesThenCover(task) ==
    LET n == Len(task.events) IN
    /\ n >= 2
    /\ task.events[n][1] = "CoverFirstLoss"
    /\ task.events[n - 1][1] = "disconnectG"
    /\ \A j \in 1..(n - 2) : task.events[j][1] = "disconnectI"
    /\ task.notices = {task.events[j] : j \in 1..(n - 1)}

C22_CoverAfterNoticesWhenLoaded ==
    \A k \in Monitors :
        (mon[k].cover # <<>> /\ mon[k].lookups \cap {"project", "guarantor"} = {})
        => LET task == mon[k] IN
           /\ task.elapsed >= DisconnectionThreshold * Period(task.project)
           /\ NoticesThenCover(task)
           /\ task.cover[1] = task.proj
           /\ task.cover[2] = projects[task.proj].GuarantorIndex
           /\ task.cover[3] = task.project.AmountOwed

\* The amount a cycle accrues: factor x monthly bill, for the factor the
\* cycle computed.
Accrual(task) == (task.elapsed * MonthlyBill) \div Period(task.project)

C35_MonitorSavesNothing ==
    [][projects' = projects]_vars

\* C35, its second half for the cycles that loaded the project.
C35_CoverAmountWhenLoaded ==
    \A k \in Monitors :
        (mon[k].cover # <<>> /\ "project" \notin mon[k].lookups)
        => mon[k].cover[3]
             = projects[mon[k].proj].AmountOwed + Accrual(mon[k])

\* C23: a cycle in which a lookup of the project, the recipient or the
\* guarantor failed takes no branch: it computes no factor, sends no mail and
\* does not call CoverFirstLoss before it sleeps.
C23_FailedLookupSkipsCycle ==
    \A k \in Monitors :
        (mon[k].pc = "sleep" /\ mon[k].lookups # {})
        => mon[k].band = "" /\ mon[k].notices = {} /\ mon[k].cover = <<>>


-----------------------------------------------------------------------------
(* Properties of issuer provisioning *)

\* The step is an Invest or SeedInvest call on project p that reached
\* MunibondInvest: the transfer was made or failed.
ReachedMunibondInvest(p) ==
    /\ ncalls' = ncalls + 1
    /\ last'.op \in {"Invest", "SeedInvest"}
    /\ last'.proj = p
    /\ last'.err \in {NoErr, "error while investing"}

\* C24: over any sequence of Invest and SeedInvest calls whose Save,
\* InitIssuer and FundIssuer may fail, the issuer of a project changes only in
\* a call that found both asset codes empty and the issuer not yet funded, and
\* MunibondInvest is reached only for a project whose issuer has been
\* initialised and funded (so a failed provisioning is made up for by a
\* later call).
C24_IssuerReadyBeforeInvest ==
    [][\A p \in DOMAIN projects :
          /\ issuer'[p] # issuer[p]
             => NeedsIssuer(projects[p]) /\ issuer[p] # "funded"
          /\ ReachedMunibondInvest(p) => issuer'[p] = "funded"]_vars

\* C24, its first half alone: provisioning runs only when both asset codes
\* are empty and succeeds at most once.
C24_ProvisionedAtMostOnce ==
    [][\A p \in DOMAIN projects :
          issuer'[p] # issuer[p]
          => NeedsIssuer(projects[p]) /\ issuer[p] # "funded"]_vars


-----------------------------------------------------------------------------
(* Properties of seed investment *)

\* The inputs of a SeedInvest call: it looks the project and the investor up
\* once.
SeedEnvs == {e \in InvestEnvs : e.f \notin {"RetrieveProject2", "RetrieveInvestor2"}}

\* Invest and SeedInvest, called in the present state with the same arguments
\* and the same outcomes of the external calls, leave the same records and
\* balances and both succeed or both fail.
InvestIsSeedInvest(p) ==
    \A i \in Investors, amt \in Amounts, e \in SeedEnvs :
        LET main == Invest(World, p, i, amt, e)
            seed == SeedInvest(World, p, i, amt, e)
        IN  /\ main.w = seed.w
            /\ (main.err = NoErr) = (seed.err = NoErr)

\* The step is an accepted seed investment in project p: SeedInvest, or Invest
\* at stage 1 or 2, returns nil.
SeedAccepted(p) ==
    /\ ncalls' = ncalls + 1
    /\ last'.proj = p
    /\ last'.err = NoErr
    /\ \/ last'.op = "SeedInvest"
       \/ last'.op = "Invest" /\ projects[p].Stage \in {1, 2}

\* C25: a seed investment is accepted only at stage 1 or 2, for a munibond
\* project and an amount within SeedInvestmentCap; it adds the amount to
\* MoneyRaised and amount x (SeedInvestmentFactor - 1) to SeedMoneyRaised; and
\* at stage 1 or 2 Invest does what SeedInvest does with the same arguments.
C25_SeedInvestment ==
    /\ [](\A p \in DOMAIN projects :
            projects[p].Stage \in {1, 2} => InvestIsSeedInvest(p))
    /\ [][\A p \in DOMAIN projects :
            SeedAccepted(p)
            => /\ projects[p].Stage \in {1, 2}
               /\ projects[p].InvestmentType = "munibond"
               /\ last'.amount <= projects[p].SeedInvestmentCap
               /\ projects'[p].MoneyRaised = projects[p].MoneyRaised + last'.amount
               /\ projects'[p].SeedMoneyRaised =
                     projects[p].SeedMoneyRaised
                     + last'.amount * (projects[p].SeedInvestmentFactor - 1)]_vars

\* An Invest call at a seed stage was accepted and left a seed surplus.
C25_Witness ==
    \E p \in DOMAIN projects :
        /\ last.op = "Invest" /\ last.proj = p /\ last.err = NoErr
        /\ last.amount > 0
        /\ projects[p].SeedMoneyRaised > 0
        /\ projects[p].Stage = 2


-----------------------------------------------------------------------------
(* Properties of the precondition checks *)

\* The requests of one investor in which no lookup and no ledger call fails:
\* amount, spending balance, whether the secret yields a key, whether the
\* account exists.
Requests == {x \in Amounts \X InvestEnvs : x[2].f = "none"}

\* The first precondition, in the order of the contract, that a request
\* fails against project p: 1 balance, 2 key, 3 account, 4 remaining gap;
\* 0 when it passes them all.
FirstFailing(p, x) ==
    IF x[2].bal < x[1] THEN 1
    ELSE IF ~x[2].keyOK THEN 2
    ELSE IF ~x[2].acctOK THEN 3
    ELSE IF x[1] > projects[p].TotalValue - projects[p].MoneyRaised THEN 4
    ELSE 0

\* What Invest and SeedInvest answer to the requests in the present state.
Answers(p) ==
    {<<FirstFailing(p, x), Invest(World, p, 1, x[1], x[2]).err>> : x \in Requests}
    \cup {<<FirstFailing(p, x), SeedInvest(World, p, 1, x[1], x[2]).err>> :
             x \in Requests}

\* C26: the preconditions are checked in the order balance, key, account,
\* remaining gap: a request that fails several is answered with the error of
\* the first one it fails, and each check has an error of its own.
C26_FirstFailingCheckAnswers ==
    \A p \in DOMAIN projects :
        \A a, b \in Answers(p) :
            /\ a[1] # 0 => a[2] # NoErr
            /\ (a[1] # 0 \/ b[1] # 0) => ((a[1] = b[1]) <=> (a[2] = b[2]))

\* A call was refused for the investor's balance although its amount was also
\* above what an earlier investment had left of the gap.
C26_Witness ==
    \E p \in DOMAIN projects :
        /\ last.op \in {"Invest", "SeedInvest"} /\ last.proj = p
        /\ last.err = "Investor has less balance than what is required"
        /\ projects[p].MoneyRaised > 0
        /\ last.amount > projects[p].TotalValue - projects[p].MoneyRaised


-----------------------------------------------------------------------------
(* Properties of operations on different projects *)

\* The state in which no project but p has ever been touched: the other
\* records hold no asset code and the other projects' assets are not held.
Alone(w, p) ==
    [w EXCEPT
        !.projects = [q \in DOMAIN @ |->
                        IF q = p THEN @[q] ELSE [ZeroProject EXCEPT !.Index = q]],
        !.invBal = [q \in DOMAIN @ |->
                      IF q = p THEN @[q] ELSE [i \in Investors |-> 0]],
        !.seedBal = [q \in DOMAIN @ |->
                       IF q = p THEN @[q] ELSE [i \in Investors |-> 0]]]

\* A call on project p gives the result, and leaves project p the record, it
\* would with the other projects untouched.
SameAsAlone(p) ==
    \A i \in Investors, amt \in Amounts :
        /\ LET r == Invest(World, p, i, amt, FundedEnv)
               a == Invest(Alone(World, p), p, i, amt, FundedEnv)
           IN  r.err = a.err /\ r.w.projects[p] = a.w.projects[p]
        /\ LET r == SeedInvest(World, p, i, amt, FundedEnv)
               a == SeedInvest(Alone(World, p), p, i, amt, FundedEnv)
           IN  r.err = a.err /\ r.w.projects[p] = a.w.projects[p]
        /\ LET r == Payback(World, p, amt, now, NoEnv)
               a == Payback(Alone(World, p), p, amt, now, NoEnv)
           IN  r.err = a.err /\ r.w.projects[p] = a.w.projects[p]

\* C29: a call on one project leaves the persisted record of every other
\* project unchanged, and in every state a call on one project gives the
\* result it would give had the other projects never been touched.
C29_ProjectsIndependent ==
    /\ [](\A p \in DOMAIN projects : SameAsAlone(p))
    /\ [][\A p, q \in DOMAIN projects :
            (ncalls' = ncalls + 1 /\ last'.proj = p /\ q # p)
            => projects'[q] = projects[q]]_vars

\* C29, its first half alone: a call on one project leaves the persisted
\* record of every other project unchanged.
C29_OtherRecordUnchanged ==
    [][\A p, q \in DOMAIN projects :
          (ncalls' = ncalls + 1 /\ last'.proj = p /\ q # p)
          => projects'[q] = projects[q]]_vars

-----------------------------------------------------------------------------
(* Properties of the funding-complete branch *)

\* C32: a call of updateAfterInvestment whose funding-complete branch has
\* saved Lock = true starts a release pipeline for that project before it
\* returns, whether or not the recipient could be notified; the notification
\* looks the recipient up at most twice.
C32_LockedStartsPipeline ==
    /\ [](\A e \in InvestEnvs : sendRecipientNotification(e).lookups <= 2)
    /\ [][\A p \in DOMAIN projects :
             fundedRuns'[p] > fundedRuns[p] => pipelines'[p] > pipelines[p]]_vars

\* C32, its second half alone: the recipient is looked up at most twice, and
\* a second time only after the first lookup failed.
C32_LookupAtMostTwice ==
    \A e \in InvestEnvs :
        /\ sendRecipientNotification(e).lookups \in {1, 2}
        /\ e.f \notin {"Recipient1", "Recipient2"}
           => sendRecipientNotification(e).lookups = 1

\* The database holds an unlock of project p: Lock is false and the password
\* is the one UnlockProject saved.
Unlocked(p) == ~projects[p].Lock /\ projects[p].LockPwd # ""

\* C33: once UnlockProject has saved Lock = false and LockPwd for a project,
\* the tail of an updateAfterInvestment call that runs beside it (the
\* InvestorMap recomputation and the last Save of the call's own copy) leaves
\* the persisted Lock false and the persisted LockPwd as supplied.
C33_UnlockSurvivesInvestTail ==
    [][\A t \in Threads, p \in DOMAIN projects :
          (threads[t].pc = "completed" /\ threads'[t].pc = "done" /\ Unlocked(p))
          => /\ ~projects'[p].Lock
             /\ projects'[p].LockPwd = projects[p].LockPwd]_vars

\* C33, the unlock itself: a successful UnlockProject leaves Lock false and
\* the supplied password in the database.
C33_UnlockIsSaved ==
    [][\A p \in DOMAIN projects :
          (ncalls' = ncalls + 1 /\ last'.op = "UnlockProject" /\ last'.proj = p
           /\ last'.err = NoErr)
          => /\ ~projects'[p].Lock
             /\ projects'[p].LockPwd = SeedPwdOf(projects[p].RecipientIndex)]_vars

-----------------------------------------------------------------------------
(* Properties of the investment record *)

\* seq is prefix followed by one more element.
ExtendsByOne(prefix, seq) ==
    Len(seq) = Len(prefix) + 1 /\ SubSeq(seq, 1, Len(prefix)) = prefix

\* C36: an Invest or SeedInvest call with amount <= 0 is rejected; no call
\* decreases MoneyRaised; InvestorIndices changes only by one index appended,
\* and that exactly in the calls that are accepted, so that its length is the
\* number of accepted investments.
C36_NonPositiveRejected ==
    [][\A p \in DOMAIN projects :
          (ncalls' = ncalls + 1 /\ last'.op \in InvestOps /\ last'.proj = p)
          => /\ last'.amount <= 0 => last'.err # NoErr
             /\ projects'[p].MoneyRaised >= projects[p].MoneyRaised
             /\ IF last'.err = NoErr
                THEN ExtendsByOne(projects[p].InvestorIndices,
                                  projects'[p].InvestorIndices)
                ELSE projects'[p].InvestorIndices = projects[p].InvestorIndices]_vars

\* C36, what holds of it: no call decreases MoneyRaised, InvestorIndices
\* changes only by the caller's index appended, and every accepted call
\* appends it.
C36_RecordOnlyGrows ==
    [][\A p \in DOMAIN projects :
          (ncalls' = ncalls + 1 /\ last'.op \in InvestOps /\ last'.proj = p)
          => /\ projects'[p].MoneyRaised >= projects[p].MoneyRaised
             /\ \/ projects'[p].InvestorIndices = projects[p].InvestorIndices
                \/ projects'[p].InvestorIndices
                      = Append(projects[p].InvestorIndices, last'.who)
             /\ last'.err = NoErr
                => ExtendsByOne(projects[p].InvestorIndices,
                                projects'[p].InvestorIndices)]_vars

-----------------------------------------------------------------------------
(* Properties of UnlockProject *)

\* The inputs of an UnlockProject call: whether the decrypted seed yields the
\* recipient's own key, and the first external call that fails.
UnlockEnvs ==
    {[NoEnv EXCEPT !.f = f, !.keyOK = k] :
        f \in {"none", "RetrieveProject", "ValidateRecipient", "ReturnPubkey", "Save"},
        k \in BOOLEAN}

\* What UnlockProject answers in the current state to every request on
\* project p: it succeeds only for the project's recipient, with the password
\* of that recipient's seed, a seed that yields the recipient's own key, and
\* a locked project, and then saves Lock = false and the password; a refused
\* request changes nothing; a request that passes the checks on the caller
\* is refused with "Project not locked" when the project is not locked.
UnlockAnswers(p) ==
    \A recp \in Recipients, pwd \in SeedPwds, e \in UnlockEnvs :
        LET r == UnlockProject(World, p, recp, pwd, e)
            own == /\ recp = projects[p].RecipientIndex
                   /\ DecryptSeed(recp, pwd)
                   /\ e.keyOK
        IN  /\ r.err = NoErr
               => /\ own /\ projects[p].Lock
                  /\ r.w = [World EXCEPT !.projects[p] =
                              [projects[p] EXCEPT !.Lock = FALSE, !.LockPwd = pwd]]
            /\ r.err # NoErr => r.w = World
            /\ (own /\ e.f \in {"none", "Save"} /\ ~projects[p].Lock)
               => r.err = "Project not locked"

\* C37: UnlockProject succeeds only if the caller is the project's recipient,
\* the seed password decrypts to the recipient's own key and the project's
\* Lock is true; a success saves Lock = false and LockPwd = the password; a
\* failure leaves the project record unchanged; and an UnlockProject on a
\* project that a first one has unlocked fails with "Project not locked".
C37_UnlockGuarded ==
    /\ [](\A p \in DOMAIN projects : UnlockAnswers(p))
    /\ [][\A p \in DOMAIN projects :
             (ncalls' = ncalls + 1 /\ last'.op = "UnlockProject" /\ last'.proj = p)
             => IF last'.err = NoErr
                THEN /\ projects[p].Lock
                     /\ last'.who = projects[p].RecipientIndex
                     /\ projects'[p] = [projects[p] EXCEPT
                                           !.Lock = FALSE,
                                           !.LockPwd = SeedPwdOf(last'.who)]
                ELSE projects'[p] = projects[p]]_vars

\* The recipient's second UnlockProject, before the pipeline has used the
\* password of the first, was refused because the project is not locked.
C37_Witness ==
    \E p \in DOMAIN projects :
        /\ last.op = "UnlockProject" /\ last.proj = p
        /\ last.who = projects[p].RecipientIndex
        /\ last.err = "Project not locked"
        /\ ncalls >= 2
        /\ ~projects[p].Lock
        /\ projects[p].LockPwd = SeedPwdOf(projects[p].RecipientIndex)

-----------------------------------------------------------------------------
(* Properties of the release as a whole *)

\* The recipient's UnlockProject on the fully funded project has succeeded
\* and is in the database, and the goroutine started for the project has not
\* left its LockInterval window.
UnlockedInWindow ==
    /\ last.op = "UnlockProject" /\ last.err = NoErr
    /\ Unlocked(1)
    /\ projects[1].MoneyRaised = projects[1].TotalValue
    /\ Len(pipes) = 1
    /\ pipes[1].pc \in {"start", "waiting"}
    /\ pipes[1].pc = "waiting" => InWindow(pipes[1], now)

\* The project is at stage 5 and a monitorPaybacks goroutine runs for it.
ReleasedAndMonitored ==
    /\ projects[1].Stage = 5
    /\ \E k \in DOMAIN mon : mon[k].proj = 1

\* C38: when a project's MoneyRaised has reached TotalValue, the recipient's
\* UnlockProject has succeeded before the LockInterval window elapsed and
\* every ledger and chain call succeeds, the project eventually reaches
\* stage 5 with a payback monitor running for it.
C38_UnlockedIsReleased == UnlockedInWindow ~> ReleasedAndMonitored

-----------------------------------------------------------------------------
(* Properties of voting *)

VoteRefusals ==
    {"Can't vote with an amount greater than available balance",
     "You can't vote for a project with stage not equal to 2"}

=============================================================================
